---- MODULE Spec2Model ----
(***************************************************************************)
(* MijnBussie: per-user scraper instances (actor + scraper task), the      *)
(* sign-in failure journal, the watchdog that reconciles the instance map  *)
(* with the user table, and the mirror of the fleet in the uptime monitor. *)
(***************************************************************************)
EXTENDS Integers, Sequences, FiniteSets, TLC

(***************************************************************************)
(* Bounds of the model                                                     *)
(***************************************************************************)
\* largest value the journal's retry_count may reach before runs stop
MaxRetryCount == 2
\* largest value of signin_fail_execution_reduce / signin_fail_mail_reduce
MaxReduce == 2
\* largest value of execution_retry_count (passes of main_program per run)
MaxPasses == 1
\* last value of the wall clock
MaxNow == 1
\* requests the timer, the operator and the API send to the instances
MaxRequests == 2

(***************************************************************************)
(* Values                                                                  *)
(***************************************************************************)
\* user names; "a" is a substring of "ab" (UserData::get_from_username
\* filters with `contains`)
Users == {"a", "ab", "c"}

Passwords == {"pw1", "pw2"}

\* SignInFailure variants the portal can report (TooManyTries stands for every
\* variant other than IncorrectCredentials); Unknown is the Default
SignInFailures == {"IncorrectCredentials", "TooManyTries"}

OK == <<"OK">>
TriesExceeded == <<"TriesExceeded">>
GeckoEngine == <<"GeckoEngine">>
ConnectError == <<"ConnectError">>
SignInFailed(f) == <<"SignInFailed", f>>

FailureTypes ==
    {OK, TriesExceeded, GeckoEngine, ConnectError}
        \cup {SignInFailed(f) : f \in SignInFailures \cup {"Unknown"}}

\* Option<T>: <<>> is None, <<x>> is Some(x)
None == <<>>
Some(x) == <<x>>

\* DefaultHasher over the plaintext password
PasswordHash(p) == IF p = "pw1" THEN "H1" ELSE "H2"

\* IncorrectCredentialsCount::default()
DefaultJournal ==
    [retry_count |-> 0, error |-> "None", previous_password_hash |-> "NoHash"]

Mail(kind, first) == [kind |-> kind, first |-> first]

MailKinds == {"IncorrectNewPassword", "SignInFailed", "SignInRecovered"}

(***************************************************************************)
(* errors.rs: the sign-in failure journal                                  *)
(***************************************************************************)
\* IncorrectCredentialsCount::sign_in_failed_check. The NewPassword return
\* leaves the journal untouched and unsaved; every other path counts the run
\* first, decides on the counted value and saves. mails lists the mails that
\* were delivered (the user has send_failed_signin_mail on); mailFail is the
\* set of mail kinds whose send returns Err.
SignInFailedCheck(j, pw, pr, mailFail) ==
    IF j.previous_password_hash # "NoHash"
          /\ j.previous_password_hash # PasswordHash(pw)
    THEN [reason |-> "NewPassword", journal |-> j, save |-> FALSE, mails |-> <<>>]
    ELSE LET inc == j.retry_count + 1
             reason ==
                 IF j.error = "IncorrectCredentials" THEN "IncorrectCredentials"
                 ELSE IF inc % pr.signin_fail_execution_reduce = 0 THEN "Ok"
                 ELSE "SigninFailureReduce"
             cnt == IF reason = "Ok" THEN inc - 1 ELSE inc
             mail == /\ cnt % pr.signin_fail_mail_reduce = 0
                     /\ j.error # "None"
                     /\ "SignInFailed" \notin mailFail
         IN  [reason |-> reason,
              journal |-> [j EXCEPT !.retry_count = cnt],
              save |-> TRUE,
              mails |-> IF mail THEN <<Mail("SignInFailed", FALSE)>> ELSE <<>>]

\* IncorrectCredentialsCount::update_signin_failure. mailFail is the set of
\* mail kinds whose send returns Err during this call; every send is followed
\* by `?`, so a failed send returns before the journal is saved.
\* Result: the in-memory journal, whether save() ran, the mails delivered,
\* Ok or Err.
UpdateSigninFailure(j, failed, reason, failure, pw, mailFail) ==
    LET newPw == failure = "IncorrectCredentials" /\ reason = "NewPassword"
        m0 == IF newPw THEN <<Mail("IncorrectNewPassword", FALSE)>> ELSE <<>>
        j1 == [j EXCEPT !.previous_password_hash = PasswordHash(pw)]
        j2 == [j1 EXCEPT !.error = failure]
        j3 == [j2 EXCEPT !.retry_count = 1]
        reset == [j1 EXCEPT !.retry_count = 0, !.error = "None"]
        mFirst == m0 \o <<Mail("SignInFailed", TRUE)>>
        mRec == m0 \o <<Mail("SignInRecovered", FALSE)>>
    IN  IF newPw /\ "IncorrectNewPassword" \in mailFail
        THEN [journal |-> j, save |-> FALSE, mails |-> <<>>, ok |-> FALSE]
        ELSE IF failed
        THEN IF j.retry_count = 0
             THEN IF "SignInFailed" \in mailFail
                  THEN [journal |-> j3, save |-> FALSE, mails |-> m0, ok |-> FALSE]
                  ELSE [journal |-> j3, save |-> TRUE, mails |-> mFirst, ok |-> TRUE]
             ELSE [journal |-> j2, save |-> TRUE, mails |-> m0, ok |-> TRUE]
        ELSE IF j1.error # "None"
             THEN IF "SignInRecovered" \in mailFail
                  THEN [journal |-> j1, save |-> FALSE, mails |-> m0, ok |-> FALSE]
                  ELSE [journal |-> reset, save |-> TRUE, mails |-> mRec, ok |-> TRUE]
             ELSE [journal |-> reset, save |-> TRUE, mails |-> m0, ok |-> TRUE]

(***************************************************************************)
(* webcom/webcom.rs: one scraper run                                       *)
(***************************************************************************)
\* results of one pass of main_program
PassResults == {"Ok", "Error", "ConnectError"} \cup SignInFailures

NoUpdate == [called |-> FALSE, failed |-> FALSE, ok |-> FALSE, journal |-> DefaultJournal]

\* the retry loop of webcom_instance, from pass i on. st carries the in-memory
\* journal j, the journal file, the sends, the exit code, the number of
\* running_errors, allow_execution and the record of the update call made.
RECURSIVE RunPasses(_, _, _, _, _, _, _)
RunPasses(i, max, passes, st, reason, pw, mailFail) ==
    IF i >= max \/ ~st.allow THEN st
    ELSE LET r == passes[i + 1]
             u == UpdateSigninFailure(st.j, r # "Ok", reason,
                                      IF r = "Ok" THEN "None" ELSE r, pw, mailFail)
             upd == [st EXCEPT !.j = u.journal,
                               !.file = IF u.save THEN u.journal ELSE st.file,
                               !.mails = st.mails \o u.mails,
                               !.allow = FALSE,
                               !.update = [called |-> TRUE, failed |-> r # "Ok",
                                           ok |-> u.ok, journal |-> u.journal]]
             next ==
                 IF r = "Ok" THEN upd
                 ELSE IF r \in SignInFailures THEN [upd EXCEPT !.code = SignInFailed(r)]
                 ELSE IF r = "ConnectError"
                      THEN [st EXCEPT !.allow = FALSE, !.code = ConnectError]
                 ELSE [st EXCEPT !.errs = st.errs + 1]
         IN  RunPasses(i + 1, max, passes, next, reason, pw, mailFail)

\* webcom_instance up to (not including) clean_execution's send.
\* env: driverOk (get_driver), passes (outcome of each pass), quitOk
\* (driver.quit), mailFail. Result: the exit code, the journal file, the
\* sends, the resume reason, whether a sign-in was attempted, whether the
\* calendar status was patched, the update call.
WebcomInstance(reason, jfile, pw, pr, previous_exit_code, env) ==
    LET chk == SignInFailedCheck(jfile, pw, pr, env.mailFail)
        file0 == IF chk.save THEN chk.journal ELSE jfile
        skip == reason # "Force"
                   /\ chk.reason \in {"IncorrectCredentials", "SigninFailureReduce"}
        skipCode == SignInFailed(IF chk.journal.error = "None" THEN "Unknown"
                                 ELSE chk.journal.error)
        st0 == [j |-> chk.journal, file |-> file0, mails |-> chk.mails, code |-> OK,
                errs |-> 0, allow |-> TRUE, update |-> NoUpdate]
        max == pr.execution_retry_count
        st == RunPasses(0, max, env.passes, st0, chk.reason, pw, env.mailFail)
        code1 == IF st.errs = 0 THEN st.code
                 ELSE IF st.errs < max THEN st.code ELSE TriesExceeded
        code2 == IF env.quitOk THEN code1 ELSE GeckoEngine
        early(code, skipped) ==
            [code |-> code, file |-> file0, mails |-> chk.mails,
             reason |-> chk.reason, skipped |-> skipped, attempted |-> FALSE,
             patched |-> FALSE, update |-> NoUpdate]
    IN  IF skip THEN early(skipCode, TRUE)
        ELSE IF ~env.driverOk THEN early(GeckoEngine, FALSE)
        ELSE [code |-> code2, file |-> st.file, mails |-> st.mails,
              reason |-> chk.reason, skipped |-> FALSE, attempted |-> max > 0,
              patched |-> previous_exit_code # code2, update |-> st.update]

\* the outcomes of the passes of one run with at most n passes: the loop
\* goes on only after a pass that ended in another error
RECURSIVE PassOutcomes(_, _)
PassOutcomes(n, results) ==
    IF n = 0 THEN {<<>>}
    ELSE {<<r>> : r \in results \ {"Error"}}
            \cup {<<r>> \o t : r \in results \cap {"Error"}, t \in PassOutcomes(n - 1, results)}

\* the environment of one run under properties pr: get_driver and
\* driver.quit, the passes, the mail kinds whose send fails
RunEnvs(pr, results, mailFails) ==
    {e \in [driverOk : BOOLEAN, quitOk : BOOLEAN, mailFail : mailFails,
            passes : PassOutcomes(pr.execution_retry_count, results)] :
        e.driverOk \/ e.quitOk}

\* at most one kind of mail fails in a run
MailFailures == {{}} \cup {{k} : k \in MailKinds}

(***************************************************************************)
(* State                                                                   *)
(***************************************************************************)
VARIABLES
    now,            \* wall clock (chrono::Utc::now)
    props,          \* GeneralProperties in effect
    db,             \* user names that have a row in user_data
    dbUser,         \* the row stored under each user name
    instances,      \* keys of the InstanceMap
    userData,       \* per key: UserInstanceData.user_data, the shared snapshot
    inbox,          \* per key: request channel, capacity 1
    outbox,         \* per key: response channel, capacity 1
    actor,          \* per key: the user_instance task: active, exited, panicked, aborted
    webcom_thread,  \* per key: thread_store: none, running, cleaning, finished, aborted
    threadResult,   \* per key: the value the scraper task returns to its JoinHandle
    start_reason,   \* per key: the StartRequest the scraper was started with
    scraperPw,      \* per key: password of the snapshot the scraper task was given
    orphans,        \* per key: scraper tasks still live whose JoinHandle was overwritten
    last_exit_code, \* per key: the actor's last_exit_code
    trigger,        \* per key: the trigger the actor remembers across the spawn
    journal,        \* per key: sign_in_failure_count.json
    logbook,        \* per key: state (exit code) saved in the logbook
    warning_sent,   \* per key: the warning_sent marker file exists
    lastRun,        \* per key: what the latest scraper run did
    notices,        \* per key: mails sent by the latest actor step
    apiWait,        \* per key: the API request waiting on the response channel
    apiStatus,      \* HTTP status of the latest API call that completed
    apiCall,        \* the latest API call: key parameter, user named, action parsed
    requests,       \* number of requests the timer, the operator and the API have sent
    wdInbox,        \* the watchdog's request channel, capacity 1
    wdAlive,        \* the watchdog loop has not returned
    wdBooted,       \* the watchdog has run a full reconcile since boot
    monitors,       \* names of the monitors in the application's group
    notifications,  \* users that have a "<user>_mail" notification
    lastWd,         \* what the watchdog's latest wakeup did
    sysTime,        \* local time of day (get_system_time)
    plan,           \* the latest execution time planned, with its inputs
    kumaMonitors,   \* the monitor server: monitors, each with id, name and kind
    kumaNotifications, \* the monitor server: notifications, each with id and name
    kumaNextId,     \* the monitor server: the id it gives to the next object
    lastEnsure,     \* the latest create or delete of kuma.rs and what it met
    DEFAULT_PROPERTIES, \* the value in the shared cell of the default properties
    general_settings,   \* per key: the cell the instance reads: "shared" or "own"
    ownSettings,    \* per key: the value in the cell of the instance's own
    defaultRow,     \* the default properties stored in the database
    custom_general_properties, \* per user: the custom properties stored, if any
    reconciled,     \* no row has changed since the latest reconcile
    executionTimeOf, \* per key: UserInstance.execution_time
    lastTick        \* the latest pass of execution_timer over the instances

instanceVars ==
    <<userData, inbox, outbox, actor, webcom_thread, threadResult, start_reason,
      scraperPw, orphans, last_exit_code, trigger, journal, logbook, warning_sent,
      lastRun, notices, apiWait, apiStatus, apiCall>>

watchdogVars == <<wdInbox, wdAlive, wdBooted, monitors, notifications, lastWd>>

timerVars == <<sysTime, plan>>

kumaVars == <<kumaMonitors, kumaNotifications, kumaNextId, lastEnsure>>

settingsVars ==
    <<DEFAULT_PROPERTIES, general_settings, ownSettings, defaultRow,
      custom_general_properties, reconciled>>

schedulerVars == <<executionTimeOf, lastTick>>

vars ==
    <<now, props, db, dbUser, instances, instanceVars, requests, watchdogVars,
      timerVars, kumaVars, settingsVars, schedulerVars>>

(***************************************************************************)
(* Requests and responses                                                  *)
(***************************************************************************)
Request(kind) == [kind |-> kind, code |-> <<>>]
ExecutionFinished(code) == [kind |-> "ExecutionFinished", code |-> code]

ExecutionTriggers == {"Timer", "Api", "Force", "Single"}
Queries == {"Logbook", "Name", "IsActive", "ExitCode", "UserData", "Calendar", "Standing"}
RequestKinds == ExecutionTriggers \cup Queries \cup {"Welcome", "Delete"}

Response(kind, val) == [kind |-> kind, val |-> val]
Bool(b) == IF b THEN <<"true">> ELSE <<"false">>

\* mpsc try_send on a channel of capacity 1: dropped when the slot is taken
TrySend(chan, msg) == IF chan = <<>> THEN <<msg>> ELSE chan

\* a stored row / a snapshot of it
UserRow(name, pw) ==
    [user_name |-> name, password |-> pw, auto_delete_account |-> FALSE,
     creation_date |-> 0,
     last_execution_date |-> None, last_succesfull_sign_in_date |-> None,
     last_system_execution_date |-> None]

NoRun ==
    [start_reason |-> "None", before |-> DefaultJournal, code |-> OK,
     file |-> DefaultJournal, mails |-> <<>>, reason |-> "None",
     skipped |-> FALSE, attempted |-> FALSE, update |-> NoUpdate, pw |-> "pw1", clean |-> TRUE, fails |-> 0, firsts |-> 0]

(***************************************************************************)
(* webcom/deletion.rs                                                      *)
(***************************************************************************)
\* days
AUTO_DELETE_DURATION == 31
FRESH_DELETE_DURATION == 1
WarningWindow == 7

\* update_instance_timestamps without the execution_by_system test
StampEveryRun(row, exit_code, execution_by_system, t) ==
    [row EXCEPT !.last_execution_date = Some(t),
                !.last_succesfull_sign_in_date =
                    IF exit_code # SignInFailed("IncorrectCredentials") THEN Some(t) ELSE @,
                !.last_system_execution_date = Some(t)]

\* the writes update_instance_timestamps makes to one copy of the row
UpdateInstanceTimestamps(row, exit_code, execution_by_system, t) ==
    LET r1 == [row EXCEPT !.last_execution_date = Some(t)]
        r2 == IF exit_code # SignInFailed("IncorrectCredentials")
              THEN [r1 EXCEPT !.last_succesfull_sign_in_date = Some(t)]
              ELSE r1
    IN  IF execution_by_system
        THEN [r2 EXCEPT !.last_system_execution_date = Some(t)]
        ELSE r2

\* NaiveDateTime::default(), 1970-01-01, in days on the clock of the model
DefaultDate == 0 - 20000

\* Option::unwrap_or_default of a date
UnwrapOrDefault(date) == IF date = None THEN DefaultDate ELSE date[1]

\* get_standing with `>` where the code has `>=`
GetStandingStrict(user, t) ==
    LET sign == user.last_succesfull_sign_in_date
    IN  IF ~user.auto_delete_account THEN "Safe"
        ELSE IF sign # None
        THEN IF sign[1] = UnwrapOrDefault(user.last_execution_date) THEN "Safe"
             ELSE IF t - sign[1] > AUTO_DELETE_DURATION THEN "MustDelete"
             ELSE IF t - sign[1] > AUTO_DELETE_DURATION - WarningWindow
                  THEN "AlmostDeleted"
             ELSE "InDanger"
        ELSE IF t - user.creation_date > FRESH_DELETE_DURATION
             THEN "MustDeleteFresh"
             ELSE "Fresh"

\* InstanceStanding::get_standing over a snapshot of the row
GetStanding(user, t) ==
    LET sign == user.last_succesfull_sign_in_date
    IN  IF ~user.auto_delete_account THEN "Safe"
        ELSE IF sign # None
        THEN IF sign[1] = UnwrapOrDefault(user.last_execution_date) THEN "Safe"
             ELSE IF t - sign[1] >= AUTO_DELETE_DURATION THEN "MustDelete"
             ELSE IF t - sign[1] >= AUTO_DELETE_DURATION - WarningWindow
                  THEN "AlmostDeleted"
             ELSE "InDanger"
        ELSE IF t - user.creation_date >= FRESH_DELETE_DURATION
             THEN "MustDeleteFresh"
             ELSE "Fresh"

\* check_instance_standing: what the verdict makes it do
CheckInstanceStanding(standing, marker) ==
    [marker |-> IF standing = "Safe" THEN FALSE
                ELSE IF standing = "AlmostDeleted" THEN TRUE
                ELSE marker,
     mails |-> IF standing = "AlmostDeleted" THEN <<Mail("DeletionWarning", FALSE)>>
               ELSE <<>>,
     delete |-> standing \in {"MustDelete", "MustDeleteFresh"},
     reason |-> IF standing = "MustDelete" THEN "OldAge" ELSE "NewDead"]

\* the trigger kept for the post-run pipeline: the one of the scraper that
\* was started, unchanged when the start was rejected
RememberTrigger(spawned, remembered, kind) == IF spawned THEN kind ELSE remembered

\* execution_by_system as the pipeline passes it
ExecutionBySystem(remembered) == remembered = "Timer"

(***************************************************************************)
(* main.rs: the user_instance actor                                        *)
(***************************************************************************)
Live(thread) == thread \in {"running", "cleaning"}

\* is_webcom_instance_active
IsWebcomInstanceActive(thread) == Live(thread)

\* spawn_webcom_instance: its return value, TRUE when a scraper is spawned
SpawnAlways(thread) == TRUE
SpawnWebcomInstance(thread) == ~Live(thread)

\* live scraper tasks of an instance: the one behind the JoinHandle and the
\* ones whose handle was dropped
LiveScrapers(u) == (IF Live(webcom_thread[u]) THEN 1 ELSE 0) + orphans[u]

Handling(u, kinds) ==
    /\ u \in instances
    /\ actor[u] = "active"
    /\ inbox[u] # <<>>
    /\ inbox[u][1].kind \in kinds

\* the tail of the loop body: the response, if any, is try_sent
Reply(u, resp) ==
    outbox' = [outbox EXCEPT ![u] = IF resp = <<>> THEN @ ELSE TrySend(@, resp[1])]

StandingName(u) == GetStanding(userData[u], now)

\* the decimal digits of a number, as `{}` formats it
Digits == <<"0", "1", "2", "3", "4", "5", "6", "7", "8", "9">>

RECURSIVE Decimal(_)
Decimal(n) == IF n < 10 THEN Digits[n + 1] ELSE Decimal(n \div 10) \o Digits[(n % 10) + 1]

\* impl Serialize for Secret
SerializeSecret(plaintext) == "[REDACTED, " \o Decimal(Len(plaintext)) \o " bytes]"

\* the derived Serialize of UserData: the fields of the model
SerializeUserData(user) == <<user.user_name, SerializeSecret(user.password)>>

QueryResponse(u, kind) ==
    IF kind = "Logbook" THEN Response("Logbook", logbook[u])
    ELSE IF kind = "Name" THEN Response("Name", <<userData[u].user_name>>)
    ELSE IF kind = "IsActive"
         THEN Response("Active", Bool(IsWebcomInstanceActive(webcom_thread[u])))
    ELSE IF kind = "ExitCode" THEN Response("ExitCode", last_exit_code[u])
    ELSE IF kind = "UserData" THEN Response("UserData", SerializeUserData(userData[u]))
    ELSE IF kind = "Standing"
         THEN Response("Standing", <<StandingName(u)>> \o Bool(warning_sent[u]))
    ELSE Response("GenResponse", <<"link">>)

\* a query arm that also reloads last_exit_code from the logbook
HandleQueryReloading(u) ==
    /\ Handling(u, Queries)
    /\ Reply(u, <<QueryResponse(u, inbox[u][1].kind)>>)
    /\ last_exit_code' = [last_exit_code EXCEPT ![u] = logbook[u]]
    /\ inbox' = [inbox EXCEPT ![u] = <<>>]
    /\ notices' = [notices EXCEPT ![u] = <<>>]
    /\ UNCHANGED <<watchdogVars, requests, now, props, timerVars, kumaVars, db, dbUser, instances, userData, actor,
                   webcom_thread, threadResult, start_reason, scraperPw, orphans,
                   trigger, journal, logbook, warning_sent, lastRun, apiWait, apiStatus, apiCall, settingsVars, schedulerVars>>

\* Logbook, Name, IsActive, ExitCode, UserData, Calendar, Standing
HandleQuery(u) ==
    /\ Handling(u, Queries)
    /\ \E linkOk \in BOOLEAN :
          LET kind == inbox[u][1].kind
          IN  Reply(u, IF kind = "Calendar" /\ ~linkOk THEN <<>>
                       ELSE <<QueryResponse(u, kind)>>)
    /\ inbox' = [inbox EXCEPT ![u] = <<>>]
    /\ notices' = [notices EXCEPT ![u] = <<>>]
    /\ UNCHANGED <<watchdogVars, requests, now, props, timerVars, kumaVars, db, dbUser, instances, userData, actor, webcom_thread,
                   threadResult, start_reason, scraperPw, orphans, last_exit_code,
                   trigger, journal, logbook, warning_sent, lastRun, apiWait, apiStatus, apiCall, settingsVars, schedulerVars>>

\* Api and the catch-all arm (Timer, Force, Single)
HandleStart(u) ==
    /\ Handling(u, ExecutionTriggers)
    /\ LET kind == inbox[u][1].kind
           thread == webcom_thread[u]
           spawned == SpawnWebcomInstance(thread)
       IN  /\ webcom_thread' = [webcom_thread EXCEPT ![u] = IF spawned THEN "running" ELSE @]
           /\ orphans' = [orphans EXCEPT ![u] = IF spawned /\ Live(thread) THEN @ + 1 ELSE @]
           /\ last_exit_code' =
                 [last_exit_code EXCEPT ![u] =
                     IF spawned /\ thread = "finished" THEN threadResult[u]
                     ELSE IF spawned /\ thread = "aborted" THEN OK
                     ELSE @]
           /\ start_reason' = [start_reason EXCEPT ![u] = IF spawned THEN kind ELSE @]
           /\ scraperPw' = [scraperPw EXCEPT ![u] = IF spawned THEN userData[u].password ELSE @]
           /\ trigger' = [trigger EXCEPT ![u] = RememberTrigger(spawned, @, kind)]
           /\ Reply(u, IF kind = "Api" THEN <<Response("Active", Bool(spawned))>> ELSE <<>>)
           /\ actor' = [actor EXCEPT ![u] = IF kind = "Single" THEN "exited" ELSE @]
    /\ inbox' = [inbox EXCEPT ![u] = <<>>]
    /\ notices' = [notices EXCEPT ![u] = <<>>]
    /\ UNCHANGED <<watchdogVars, requests, now, props, timerVars, kumaVars, db, dbUser, instances, userData, threadResult, journal,
                   logbook, warning_sent, lastRun, apiWait, apiStatus, apiCall, settingsVars, schedulerVars>>

HandleWelcome(u) ==
    /\ Handling(u, {"Welcome"})
    /\ Reply(u, <<Response("GenResponse", <<"welcome">>)>>)
    /\ inbox' = [inbox EXCEPT ![u] = <<>>]
    /\ notices' = [notices EXCEPT ![u] = <<Mail("Welcome", FALSE)>>]
    /\ UNCHANGED <<watchdogVars, requests, now, props, timerVars, kumaVars, db, dbUser, instances, userData, actor, webcom_thread,
                   threadResult, start_reason, scraperPw, orphans, last_exit_code,
                   trigger, journal, logbook, warning_sent, lastRun, apiWait, apiStatus, apiCall, settingsVars, schedulerVars>>

\* outcomes of the database calls of one handler: the connection cannot be
\* made (get_database_connection panics), the lookup fails, the update
\* fails, or all succeed
DbStates == {"ok", "down", "queryFail", "updateFail"}
\* the ones drawn while one instance is explored
InstanceDbStates == {"ok", "down"}

\* ExecutionFinished(code): update_instance_timestamps, check_instance_standing
\* (its verdict is computed on the snapshot taken by set_data, its return
\* value is dropped), log_exit_code
HandleExecutionFinished(u) ==
    /\ Handling(u, {"ExecutionFinished"})
    /\ inbox' = [inbox EXCEPT ![u] = <<>>]
    /\ \E dbState \in InstanceDbStates :
          LET code == inbox[u][1].code
              user == userData[u]
              row == user.user_name
              found == dbState # "queryFail" /\ row \in db
              bySystem == ExecutionBySystem(trigger[u])
              chk == CheckInstanceStanding(GetStanding(user, now), warning_sent[u])
              stamped == IF found /\ dbState = "ok"
                         THEN [dbUser EXCEPT ![row] =
                                  UpdateInstanceTimestamps(@, code, bySystem, now)]
                         ELSE dbUser
          IN  IF dbState = "down"
              THEN /\ actor' = [actor EXCEPT ![u] = "panicked"]
                   /\ UNCHANGED <<userData, dbUser, db, warning_sent, journal, logbook,
                                  notices>>
              ELSE /\ userData' =
                         [userData EXCEPT ![u] =
                             IF found THEN UpdateInstanceTimestamps(@, code, bySystem, now)
                             ELSE @]
                   /\ dbUser' = stamped
                   /\ db' = IF chk.delete /\ found THEN db \ {row} ELSE db
                   /\ warning_sent' = [warning_sent EXCEPT ![u] = chk.marker /\ ~chk.delete]
                   /\ journal' = [journal EXCEPT ![u] = IF chk.delete THEN DefaultJournal ELSE @]
                   /\ logbook' = [logbook EXCEPT ![u] = IF chk.delete THEN OK ELSE @]
                   /\ notices' =
                         [notices EXCEPT ![u] =
                             chk.mails \o (IF chk.delete /\ found
                                           THEN <<Mail(chk.reason, FALSE)>> ELSE <<>>)]
                   /\ UNCHANGED actor
    /\ Reply(u, <<>>)
    /\ UNCHANGED <<watchdogVars, requests, now, props, timerVars, kumaVars, instances, webcom_thread, threadResult, start_reason,
                   scraperPw, orphans, last_exit_code, trigger, lastRun, apiWait,
                   apiStatus, apiCall, settingsVars, schedulerVars>>

\* Delete: leave the loop, abort the scraper, delete_account(Manual)
HandleDelete(u) ==
    /\ Handling(u, {"Delete"})
    /\ inbox' = [inbox EXCEPT ![u] = <<>>]
    /\ webcom_thread' = [webcom_thread EXCEPT ![u] = IF Live(@) THEN "aborted" ELSE @]
    /\ \E dbState \in InstanceDbStates :
          LET row == userData[u].user_name
              found == dbState = "ok" /\ row \in db
          IN  IF dbState = "down"
              THEN /\ actor' = [actor EXCEPT ![u] = "panicked"]
                   /\ Reply(u, <<>>)
                   /\ UNCHANGED <<db, notices, journal, logbook, warning_sent>>
              ELSE /\ actor' = [actor EXCEPT ![u] = "exited"]
                   /\ journal' = [journal EXCEPT ![u] = DefaultJournal]
                   /\ logbook' = [logbook EXCEPT ![u] = OK]
                   /\ warning_sent' = [warning_sent EXCEPT ![u] = FALSE]
                   /\ db' = IF found THEN db \ {row} ELSE db
                   /\ notices' = [notices EXCEPT ![u] =
                                     IF found THEN <<Mail("Manual", FALSE)>> ELSE <<>>]
                   /\ Reply(u, <<Response("GenResponse", Bool(found))>>)
    /\ UNCHANGED <<watchdogVars, requests, now, props, timerVars, kumaVars, dbUser, instances, userData, threadResult, start_reason,
                   scraperPw, orphans, last_exit_code, trigger, lastRun, apiWait,
                   apiStatus, apiCall, settingsVars, schedulerVars>>

(***************************************************************************)
(* webcom/webcom.rs: the scraper task                                      *)
(***************************************************************************)
\* webcom_instance through clean_execution's try_send of ExecutionFinished
ScraperRun(u) ==
    /\ u \in instances
    /\ webcom_thread[u] = "running"
    /\ journal[u].retry_count < MaxRetryCount
    /\ \E env \in RunEnvs(props, {"Ok", "IncorrectCredentials"}, {{}}) :
          LET res == WebcomInstance(start_reason[u], journal[u], scraperPw[u], props,
                                    logbook[u], env)
          IN  /\ journal' = [journal EXCEPT ![u] = res.file]
              /\ logbook' = [logbook EXCEPT ![u] = res.code]
              /\ inbox' = [inbox EXCEPT ![u] =
                              IF actor[u] \in {"panicked", "aborted"} THEN @
                              ELSE TrySend(@, ExecutionFinished(res.code))]
              /\ threadResult' = [threadResult EXCEPT ![u] = res.code]
    /\ webcom_thread' = [webcom_thread EXCEPT ![u] = "cleaning"]
    /\ UNCHANGED <<watchdogVars, requests, now, props, timerVars, kumaVars, db, dbUser, instances, userData, outbox, actor,
                   start_reason, scraperPw, orphans, last_exit_code, trigger,
                   warning_sent, lastRun, notices, apiWait, apiStatus, apiCall, settingsVars, schedulerVars>>

\* send_heartbeat returns and the task ends
ScraperExit(u) ==
    /\ u \in instances
    /\ webcom_thread[u] = "cleaning"
    /\ webcom_thread' = [webcom_thread EXCEPT ![u] = "finished"]
    /\ UNCHANGED <<watchdogVars, requests, now, props, timerVars, kumaVars, db, dbUser, instances, userData, inbox, outbox, actor,
                   threadResult, start_reason, scraperPw, orphans, last_exit_code,
                   trigger, journal, logbook, warning_sent, lastRun, notices,
                   apiWait, apiStatus, apiCall, settingsVars, schedulerVars>>

(***************************************************************************)
(* api/route.rs and execution/timer.rs: who sends to an instance           *)
(***************************************************************************)
\* Action -> StartRequest of get_information (Start is StartRequest::Api)
ApiActions == {"Logbook", "IsActive", "Name", "Api", "ExitCode", "UserData", "Welcome"}
\* routes of the API that send Calendar, Delete and Standing
ApiActionsLater == {"Calendar", "Delete", "Standing"}

\* the value of $API_KEY
API_KEY == "key"

\* the key parameter of a request: missing, right or wrong
Keys == {None, Some(API_KEY), Some("guess")}

\* a check that lets every request with a key parameter pass
AnyKeyPasses(key) == key # None

\* check_api_key: the request goes on to its route
CheckApiKey(key) == key # None /\ key[1] = API_KEY

\* Action::from_str
ParseAction(action) ==
    IF action \in ApiActions \cup ApiActionsLater THEN Some(action) ELSE None

\* what is kept of an API call: the key parameter, the user and whether the
\* action of the path parses
ApiCallOf(key, user, action) ==
    [key |-> key, user |-> user, parsed |-> ParseAction(action) # None]

NoCall == [key |-> Some(API_KEY), user |-> "-", parsed |-> TRUE]

\* /api/{user_name}/{action}: check_api_key, get_information and send_request
\* up to the wait on the response channel (the caller holds the read lock of
\* the map and the lock of the instance's response receiver)
ApiCall(u, key, action) ==
    /\ requests < MaxRequests
    /\ (CheckApiKey(key) /\ u \in instances) => apiWait[u] = <<>>
    /\ apiCall' = ApiCallOf(key, u, action)
    /\ IF ~CheckApiKey(key)
       THEN /\ apiStatus' = 401
            /\ UNCHANGED <<inbox, apiWait>>
       ELSE IF u \notin instances
       THEN /\ apiStatus' = 404
            /\ UNCHANGED <<inbox, apiWait>>
       ELSE IF ParseAction(action) = None
       THEN /\ apiStatus' = 500
            /\ UNCHANGED <<inbox, apiWait>>
       ELSE IF inbox[u] # <<>> \/ actor[u] = "panicked"
       THEN /\ apiStatus' = 500
            /\ UNCHANGED <<inbox, apiWait>>
       ELSE /\ inbox' = [inbox EXCEPT ![u] = <<Request(action)>>]
            /\ apiWait' = [apiWait EXCEPT ![u] = <<action>>]
            /\ UNCHANGED apiStatus
    /\ requests' = requests + 1
    /\ UNCHANGED <<watchdogVars, now, props, timerVars, kumaVars, db, dbUser, instances, userData,
                   outbox, actor, webcom_thread, threadResult, start_reason, scraperPw,
                   orphans, last_exit_code, trigger, journal, logbook, warning_sent,
                   lastRun, notices, settingsVars, schedulerVars>>

\* a request of a client that holds the key, for an action of the API
ApiRequest(u) ==
    \E action \in ApiActions \cup ApiActionsLater : ApiCall(u, Some(API_KEY), action)

\* /api/refresh and /api/refresh/{user_name}: check_api_key and refresh_users
ApiRefresh(key, req) ==
    /\ requests < MaxRequests
    /\ apiCall' = [ApiCallOf(key, "-", "-") EXCEPT !.parsed = TRUE]
    /\ IF ~CheckApiKey(key)
       THEN /\ apiStatus' = 401
            /\ UNCHANGED wdInbox
       ELSE IF wdInbox # <<>> \/ ~wdAlive
       THEN /\ apiStatus' = 500
            /\ UNCHANGED wdInbox
       ELSE /\ apiStatus' = 200
            /\ wdInbox' = <<req>>
    /\ requests' = requests + 1
    /\ UNCHANGED <<now, props, timerVars, kumaVars, db, dbUser, instances, userData, inbox, outbox,
                   actor, webcom_thread, threadResult, start_reason, scraperPw, orphans,
                   last_exit_code, trigger, journal, logbook, warning_sent, lastRun,
                   notices, apiWait, wdAlive, wdBooted, monitors, notifications, lastWd, settingsVars, schedulerVars>>

\* recv on the response channel returns what is in it: the body of the 200
ApiBody(u) == outbox[u][1]

ApiReceive(u) ==
    /\ apiWait[u] # <<>>
    /\ outbox[u] # <<>>
    /\ apiStatus' = 200
    /\ outbox' = [outbox EXCEPT ![u] = <<>>]
    /\ apiWait' = [apiWait EXCEPT ![u] = <<>>]
    /\ UNCHANGED <<apiCall, watchdogVars, requests, now, props, timerVars, kumaVars, db, dbUser, instances, userData, inbox, actor,
                   webcom_thread, threadResult, start_reason, scraperPw, orphans,
                   last_exit_code, trigger, journal, logbook, warning_sent, lastRun,
                   notices, settingsVars, schedulerVars>>

\* the 2 s timeout of the wait
ApiTimeout(u) ==
    /\ apiWait[u] # <<>>
    /\ outbox[u] = <<>>
    /\ apiStatus' = 500
    /\ apiWait' = [apiWait EXCEPT ![u] = <<>>]
    /\ UNCHANGED <<apiCall, watchdogVars, requests, now, props, timerVars, kumaVars, db, dbUser, instances, userData, inbox, outbox, actor,
                   webcom_thread, threadResult, start_reason, scraperPw, orphans,
                   last_exit_code, trigger, journal, logbook, warning_sent, lastRun,
                   notices, settingsVars, schedulerVars>>

NoApiWaiting == \A u \in Users : apiWait[u] = <<>>

\* execution_timer finds the instance due (it holds the write lock of the
\* map) and try_sends Timer; Force and Single are sent the same way
SendStart(u, kind) ==
    /\ requests < MaxRequests
    /\ u \in instances
    /\ NoApiWaiting
    /\ actor[u] # "panicked"
    /\ inbox' = [inbox EXCEPT ![u] = TrySend(@, Request(kind))]
    /\ requests' = requests + 1
    /\ UNCHANGED <<watchdogVars, now, props, timerVars, kumaVars, db, dbUser, instances, userData, outbox, actor,
                   webcom_thread, threadResult, start_reason, scraperPw, orphans,
                   last_exit_code, trigger, journal, logbook, warning_sent, lastRun,
                   notices, apiWait, apiStatus, apiCall, settingsVars, schedulerVars>>

TimerTick(u) == SendStart(u, "Timer")

OperatorStart(u) == \E kind \in {"Force", "Single"} : SendStart(u, kind)

Tick ==
    /\ now < MaxNow
    /\ now' = now + 1
    /\ UNCHANGED <<props, timerVars, kumaVars, db, dbUser, instances, instanceVars, requests, watchdogVars, settingsVars, schedulerVars>>

(***************************************************************************)
(* kuma.rs: creating monitors, notifications and the group once            *)
(***************************************************************************)
APPLICATION_NAME == "Mijn Bussie"

Monitor(id, name, kind) == [id |-> id, name |-> name, kind |-> kind]

\* format!("{user_name}_mail")
NotificationName(user_name) == user_name \o "_mail"

\* a lookup that never finds a monitor
NeverFound(mons, name) == None

\* get_monitor_id: the id of a monitor of that name, of whatever kind
GetMonitorId(mons, name) ==
    IF \E m \in mons : m.name = name
    THEN Some((CHOOSE m \in mons : m.name = name).id)
    ELSE None

\* get_notification_id
GetNotificationId(notifs, user_name) ==
    IF \E n \in notifs : n.name = NotificationName(user_name)
    THEN Some((CHOOSE n \in notifs : n.name = NotificationName(user_name)).id)
    ELSE None

\* create_monitor: the id returned, the monitors afterwards, whether
\* add_monitor was called
CreateMonitor(mons, next_id, user_name) ==
    LET found == GetMonitorId(mons, user_name)
    IN  IF found # None
        THEN [id |-> found[1], monitors |-> mons, created |-> FALSE]
        ELSE [id |-> next_id, monitors |-> mons \cup {Monitor(next_id, user_name, "push")},
              created |-> TRUE]

\* create_notification
CreateNotification(notifs, next_id, user_name) ==
    LET found == GetNotificationId(notifs, user_name)
    IN  IF found # None
        THEN [id |-> found[1], notifications |-> notifs, created |-> FALSE]
        ELSE [id |-> next_id,
              notifications |-> notifs \cup
                  {[id |-> next_id, name |-> NotificationName(user_name)]},
              created |-> TRUE]

\* create_monitor_group
CreateMonitorGroup(mons, next_id, group_name) ==
    LET groups == {m \in mons : m.kind = "group" /\ m.name = group_name}
    IN  IF groups # {}
        THEN [id |-> (CHOOSE m \in groups : TRUE).id, monitors |-> mons, created |-> FALSE]
        ELSE [id |-> next_id, monitors |-> mons \cup {Monitor(next_id, group_name, "group")},
              created |-> TRUE]

NoEnsure == [op |-> "None", name |-> "-", met |-> {}, id |-> 0, created |-> FALSE]

InitKumaVars ==
    /\ kumaMonitors = {}
    /\ kumaNotifications = {}
    /\ kumaNextId = 1
    /\ lastEnsure = NoEnsure

(***************************************************************************)
(* execution/timer.rs: planning the execution time of an instance          *)
(***************************************************************************)
\* time::Time, a time of day
Time(h, m, sec) == [hour |-> h, minute |-> m, second |-> sec]

MinutesPerDay == 24 * 60

\* Time + Duration::hours(n) and Time + Duration::minutes(n) wrap at midnight
AddHours(t, n) == [t EXCEPT !.hour = (t.hour + n) % 24]

AddMinutes(t, n) ==
    LET total == (t.hour * 60 + t.minute + n) % MinutesPerDay
    IN  [t EXCEPT !.hour = total \div 60, !.minute = total % 60]

\* `x as u8`
AsU8(x) == x % 256

\* Time::replace_minute: Err for a minute above 59
ReplaceMinute(t, m) == IF m \in 0..59 THEN Some([t EXCEPT !.minute = m]) ELSE None

\* get_system_time_zero_seconds
GetSystemTimeZeroSeconds(t) == [t EXCEPT !.second = 0]

\* interval_hours of both planners: execution_interval / 60, 1 when that is 0
IntervalHours(execution_interval) ==
    IF execution_interval \div 60 = 0 THEN 1 ELSE execution_interval \div 60

\* calculate_first_execution_time_simple at system time t, with
\* random_execution_hour the value drawn from 0..=interval_hours
CalculateFirstExecutionTimeSimple(t, execution_interval, execution_minute, random_execution_hour) ==
    LET current_system_time == GetSystemTimeZeroSeconds(t)
        execution_time == AddHours(current_system_time, random_execution_hour)
        adjusted == ReplaceMinute(execution_time, AsU8(execution_minute))
        next_minute == ReplaceMinute(execution_time, current_system_time.minute + 1)
    IN  IF /\ adjusted # None
           /\ (current_system_time.minute < AsU8(execution_minute)
                  \/ random_execution_hour # 0)
        THEN adjusted[1]
        ELSE IF next_minute # None THEN next_minute[1]
        ELSE execution_time

\* calculate_initial_execution_time at system time t; last is None or
\* Some(minutes elapsed since last_system_execution_date)
CalculateInitialExecutionTime(t, last, execution_interval, execution_minute, random_execution_hour) ==
    LET current_system_time == GetSystemTimeZeroSeconds(t)
        next_execution_time == Time(0, 0, 0)
        time_until_next_execution == execution_interval - last[1]
        next_execution_time_local ==
            AddMinutes(current_system_time, time_until_next_execution)
        replaced == ReplaceMinute(next_execution_time, AsU8(execution_minute))
    IN  IF last = None
        THEN CalculateFirstExecutionTimeSimple(t, execution_interval, execution_minute,
                                               random_execution_hour)
        ELSE IF time_until_next_execution > 0
        THEN (IF replaced # None THEN replaced[1] ELSE next_execution_time_local)
        ELSE CalculateFirstExecutionTimeSimple(t, execution_interval, execution_minute,
                                               random_execution_hour)

\* a re-plan that keeps the minute of the clock
NextKeepsMinute(t, execution_interval, execution_minute) ==
    AddHours(GetSystemTimeZeroSeconds(t), IntervalHours(execution_interval))

\* calculate_next_execution_time at system time t
CalculateNextExecutionTime(t, execution_interval, execution_minute) ==
    LET current_system_time == GetSystemTimeZeroSeconds(t)
        next_execution_time ==
            AddHours(current_system_time, IntervalHours(execution_interval))
        replaced == ReplaceMinute(next_execution_time, AsU8(execution_minute))
    IN  IF replaced # None THEN replaced[1] ELSE next_execution_time

\* no execution time planned yet
NoPlan ==
    [kind |-> "None", at |-> Time(0, 0, 0), last |-> None, interval |-> 0,
     minute |-> 0, k |-> 0, result |-> Time(0, 0, 0)]

InitTimerVars ==
    /\ sysTime = Time(0, 0, 0)
    /\ plan = NoPlan

\* no instance, nothing loaded
InitSettingsVars ==
    /\ DEFAULT_PROPERTIES = "D1"
    /\ general_settings = [u \in Users |-> "shared"]
    /\ ownSettings = [u \in Users |-> "D1"]
    /\ defaultRow = "D1"
    /\ custom_general_properties = [u \in Users |-> None]
    /\ reconciled = TRUE

\* no pass of execution_timer yet
NoTick == [ran |-> FALSE, at |-> Time(0, 0, 0), due |-> {}, full |-> {}]

InitSchedulerVars ==
    /\ executionTimeOf = [u \in Users |-> Time(0, 0, 0)]
    /\ lastTick = NoTick

(***************************************************************************)
(* Specification of one instance: actor, scraper, timer and API            *)
(***************************************************************************)
Props(reduce, mail_reduce, retries) ==
    [signin_fail_execution_reduce |-> reduce, signin_fail_mail_reduce |-> mail_reduce,
     execution_retry_count |-> retries]

InitInstanceVars ==
    /\ userData = [u \in Users |-> UserRow(u, "pw1")]
    /\ inbox = [u \in Users |-> <<>>]
    /\ outbox = [u \in Users |-> <<>>]
    /\ actor = [u \in Users |-> "active"]
    /\ webcom_thread = [u \in Users |-> "none"]
    /\ threadResult = [u \in Users |-> OK]
    /\ start_reason = [u \in Users |-> "None"]
    /\ scraperPw = [u \in Users |-> "pw1"]
    /\ orphans = [u \in Users |-> 0]
    /\ last_exit_code = [u \in Users |-> OK]
    /\ trigger = [u \in Users |-> "None"]
    /\ journal = [u \in Users |-> DefaultJournal]
    /\ logbook = [u \in Users |-> OK]
    /\ warning_sent = [u \in Users |-> FALSE]
    /\ lastRun = [u \in Users |-> NoRun]
    /\ notices = [u \in Users |-> <<>>]
    /\ apiWait = [u \in Users |-> <<>>]
    /\ apiStatus = 0
    /\ apiCall = NoCall

\* WatchdogRequest
WdRequest(kind, user, action) == [kind |-> kind, user |-> user, action |-> action]
AllUser == WdRequest("AllUser", "-", "-")
FirstTime == WdRequest("FirstTime", "-", "-")

NoWakeup ==
    [kind |-> "None", boot |-> FALSE, first_run |-> FALSE, done |-> FALSE,
     names |-> {}, live |-> {}, failed |-> {}, kuma |-> "ok", calls |-> {}]

\* main: the channel is made and AllUser is try_sent before the watchdog runs
InitWatchdogVars ==
    /\ wdInbox = <<AllUser>>
    /\ wdAlive = TRUE
    /\ wdBooted = FALSE
    /\ monitors = {}
    /\ notifications = {}
    /\ lastWd = NoWakeup

InitInstance ==
    /\ now = 0
    /\ props = Props(1, 1, 1)
    /\ db = {"a"}
    /\ dbUser = [u \in Users |-> UserRow(u, "pw1")]
    /\ instances = {"a"}
    /\ requests = 0
    /\ InitInstanceVars
    /\ InitWatchdogVars
    /\ InitTimerVars
    /\ InitKumaVars
    /\ InitSettingsVars
    /\ InitSchedulerVars

NextInstance ==
    \/ \E u \in {"a"} :
          \/ HandleQuery(u)
          \/ HandleStart(u)
          \/ HandleWelcome(u)
          \/ HandleExecutionFinished(u)
          \/ HandleDelete(u)
          \/ ScraperRun(u)
          \/ ScraperExit(u)
          \/ ApiReceive(u)
          \/ ApiTimeout(u)
          \/ TimerTick(u)
          \/ OperatorStart(u)
    \/ \E u \in {"a", "c"} : ApiRequest(u)
    \/ Tick

SpecInstance == InitInstance /\ [][NextInstance]_vars

(***************************************************************************)
(* Claims about one instance                                               *)
(***************************************************************************)
\* the actor takes the request in its inbox
Handles(u, kinds) == Handling(u, kinds) /\ inbox'[u] = <<>>

\* C1: at most one scraper. In every state an instance has at most one live
\* scraper task; when the actor handles Timer, Api, Force or Single while its
\* scraper is still running no scraper is launched, and an Api start is
\* answered Active(false), which the waiting API call returns with status 200.
C1_StartWhileRunning ==
    \A u \in Users :
        /\ Handles(u, ExecutionTriggers) /\ Live(webcom_thread[u]) =>
              /\ webcom_thread'[u] = webcom_thread[u]
              /\ orphans'[u] = orphans[u]
              /\ start_reason'[u] = start_reason[u]
              /\ inbox[u][1].kind = "Api" =>
                    outbox'[u] = TrySend(outbox[u], Response("Active", Bool(FALSE)))
        /\ apiWait[u] # <<>> /\ apiWait'[u] = <<>> /\ outbox[u] # <<>> =>
              apiStatus' = 200 /\ outbox'[u] = <<>>

C6_SystemDateStep ==
    /\ \A n \in Users :
          dbUser'[n].last_system_execution_date # dbUser[n].last_system_execution_date =>
             \E u \in instances :
                /\ userData[u].user_name = n
                /\ Handles(u, {"ExecutionFinished"})
                /\ start_reason[u] = "Timer"
    /\ \A u \in Users :
          /\ userData'[u].last_system_execution_date
                # userData[u].last_system_execution_date =>
                Handles(u, {"ExecutionFinished"}) /\ start_reason[u] = "Timer"
          /\ Handles(u, ExecutionTriggers) /\ Live(webcom_thread[u]) =>
                start_reason'[u] = start_reason[u] /\ trigger'[u] = trigger[u]
          /\ trigger'[u] = start_reason'[u]

C7_QueryStep ==
    \A u \in Users :
        Handles(u, Queries) =>
           /\ webcom_thread'[u] = webcom_thread[u]
           /\ orphans'[u] = orphans[u]
           /\ last_exit_code'[u] = last_exit_code[u]
           /\ userData'[u] = userData[u]
           /\ dbUser' = dbUser
           /\ journal'[u] = journal[u]

C7_QueriesAreReadOnly == [][C7_QueryStep]_vars

\* an ExitCode query was answered after a run that left a code other than
\* the actor's last_exit_code
C7_Reached ==
    /\ \E c \in FailureTypes : outbox["a"] = <<Response("ExitCode", c)>>
    /\ logbook["a"] # last_exit_code["a"]
    /\ apiWait["a"] = <<"ExitCode">>

(***************************************************************************)
(* Specification of the journal: consecutive runs of one user's scraper    *)
(* under every trigger, password, run outcome and mail outcome             *)
(***************************************************************************)
Count(mails, m) == Cardinality({i \in DOMAIN mails : mails[i] = m})

Min(a, b) == IF a < b THEN a ELSE b

\* what a run did, and the streak of sign-in failures it belongs to: clean
\* says the streak began with a journal of retry_count 0 and no error, fails
\* counts its runs whose sign-in failed and firsts the SignInFailed(first)
\* mails delivered in it (both stop counting at 2)
RunRecord(kind, before, pw, res, prev) ==
    LET success == res.update.called /\ ~res.update.failed
        failure == res.update.called /\ res.update.failed
        n == Count(res.mails, Mail("SignInFailed", TRUE))
    IN  [start_reason |-> kind, before |-> before, code |-> res.code, file |-> res.file,
         mails |-> res.mails, reason |-> res.reason, skipped |-> res.skipped,
         attempted |-> res.attempted, update |-> res.update, pw |-> pw,
         clean |-> IF success
                   THEN res.file.retry_count = 0 /\ res.file.error = "None"
                   ELSE prev.clean,
         fails |-> IF success THEN 0
                   ELSE IF failure THEN Min(prev.fails + 1, 2)
                   ELSE prev.fails,
         firsts |-> IF success THEN 0 ELSE Min(prev.firsts + n, 2)]

JournalRun(u) ==
    /\ journal[u].retry_count < MaxRetryCount
    /\ \E kind \in {"Timer", "Force"}, pw \in Passwords,
          env \in RunEnvs(props, PassResults, MailFailures) :
          LET res == WebcomInstance(kind, journal[u], pw, props, logbook[u], env)
          IN  /\ journal' = [journal EXCEPT ![u] = res.file]
              /\ logbook' = [logbook EXCEPT ![u] = res.code]
              /\ lastRun' = [lastRun EXCEPT ![u] =
                                RunRecord(kind, journal[u], pw, res, lastRun[u])]
    /\ UNCHANGED <<watchdogVars, requests, now, props, timerVars, kumaVars, db, dbUser, instances, userData, inbox, outbox,
                   actor, webcom_thread, threadResult, start_reason, scraperPw, orphans,
                   last_exit_code, trigger, warning_sent, notices, apiWait, apiStatus, apiCall, settingsVars, schedulerVars>>

InitJournal ==
    /\ now = 0
    /\ props \in {Props(r, m, n) : r \in 1..MaxReduce, m \in 1..MaxReduce,
                                   n \in {0, MaxPasses}}
    /\ db = {"a"}
    /\ dbUser = [u \in Users |-> UserRow(u, "pw1")]
    /\ instances = {"a"}
    /\ requests = 0
    /\ InitInstanceVars
    /\ InitWatchdogVars
    /\ InitTimerVars
    /\ InitKumaVars
    /\ InitSettingsVars
    /\ InitSchedulerVars

NextJournal == JournalRun("a")

SpecJournal == InitJournal /\ [][NextJournal]_vars

(***************************************************************************)
(* Claims about the journal                                                *)
(***************************************************************************)
Ran(r) == r.start_reason # "None"

HashDiffers(r) ==
    r.before.previous_password_hash \notin {"NoHash", PasswordHash(r.pw)}

SignInSucceeded(r) == r.update.called /\ ~r.update.failed

SignInFailedIn(r) == r.update.called /\ r.update.failed

\* C8: credential hash wins. Whenever a run starts with a stored
\* previous_password_hash that differs from the hash of the current password,
\* the resume reason is NewPassword and the run is not skipped, whatever
\* retry_count and error are; and if the sign-in of that run succeeds, the
\* journal file has retry_count 0 and, when an error was recorded, the
\* SignInRecovered mail was delivered.
C8_CredentialHashWins ==
    \A u \in instances :
        LET r == lastRun[u]
        IN  Ran(r) /\ HashDiffers(r) =>
               /\ r.reason = "NewPassword"
               /\ ~r.skipped
               /\ SignInSucceeded(r) =>
                     /\ journal[u].retry_count = 0
                     /\ r.before.error # "None" =>
                           Count(r.mails, Mail("SignInRecovered", FALSE)) = 1

\* C8, the part the code keeps: the reason is NewPassword and the run is not
\* skipped
C8_NewPasswordProceeds ==
    \A u \in instances :
        LET r == lastRun[u]
        IN  Ran(r) /\ HashDiffers(r) => r.reason = "NewPassword" /\ ~r.skipped

\* a run with a changed password and a recorded IncorrectCredentials error
\* went on to sign in
C8_Reached ==
    LET r == lastRun["a"]
    IN  /\ Ran(r) /\ HashDiffers(r) /\ SignInSucceeded(r)
        /\ r.before.error = "IncorrectCredentials"
        /\ r.start_reason = "Timer"

\* C9: after update_signin_failure(failed = false, ..) has returned, the
\* journal in memory and the journal file both have retry_count 0 and no
\* error.
C9_ResetAfterSuccess ==
    \A u \in instances :
        LET r == lastRun[u]
        IN  Ran(r) /\ SignInSucceeded(r) =>
               /\ r.update.journal.retry_count = 0
               /\ r.update.journal.error = "None"
               /\ journal[u].retry_count = 0
               /\ journal[u].error = "None"

\* a sign-in succeeded for a journal that held a count and an error
C9_Reached ==
    LET r == lastRun["a"]
    IN  /\ Ran(r) /\ SignInSucceeded(r)
        /\ r.before.retry_count > 0
        /\ r.before.error = "TooManyTries"
        /\ r.update.ok

\* C10: in a streak of sign-in failures that began from a journal with
\* retry_count 0 and no error, exactly one SignInFailed(first = true) mail
\* has been delivered once a run of the streak has failed sign-in, and never
\* more than one.
C10_FirstFailureMailOnce ==
    \A u \in instances :
        LET r == lastRun[u]
        IN  Ran(r) /\ r.clean =>
               /\ r.firsts <= 1
               /\ r.fails >= 1 => r.firsts = 1

\* two runs in a row failed sign-in, the first from a journal with
\* retry_count 0 and no error
C10_Reached ==
    LET r == lastRun["a"]
    IN  Ran(r) /\ r.clean /\ r.fails = 2 /\ SignInFailedIn(r)

(***************************************************************************)
(* variables.rs: looking a user up by name                                 *)
(***************************************************************************)
\* SQL `user_name LIKE '%k%'` over the user names of the model: "a" is
\* contained in "ab"
Contains(n, k) == n = k \/ (k = "a" /\ n = "ab")

Matches(rows, k) == {n \in rows : Contains(n, k)}

\* the row `.one()` returns for each name: any of the matching rows
Picks(rows) ==
    {pick \in [Users -> Users] :
        \A k \in Users : IF Matches(rows, k) = {} THEN pick[k] = k
                         ELSE pick[k] \in Matches(rows, k)}

\* UserData::get_from_username
GetFromUsername(rows, k, pick) == IF Matches(rows, k) = {} THEN None ELSE Some(pick[k])

(***************************************************************************)
(* kuma.rs: the mirror of the instances in the uptime monitor              *)
(***************************************************************************)
\* how the monitor server behaves during one manage_users: it works, the
\* connection (or the group) fails, or a create_notification fails
KumaOutcomes == {"ok", "connect", "notification"}

Call(op, name) == <<op, name>>

\* manage_users(actions, active_instances, properties): add and remove are the
\* names get_users returns, keys and data the instance map, stopAt the
\* instances of the add loop handled before a create_notification fails.
\* Result: monitors, notifications, the calls issued, whether every call
\* worked.
ManageUsers(add, remove, keys, data, mon, notif, kuma, stopAt) ==
    LET quiet == [monitors |-> mon, notifications |-> notif, calls |-> {}, ok |-> TRUE]
        gone == {data[u].user_name : u \in remove \cap keys}
        mon1 == mon \ gone
        notif1 == notif \ gone
        delCalls == {Call("DeleteMonitor", n) : n \in gone \cap mon}
                       \cup {Call("DeleteNotification", n) : n \in gone \cap notif}
        todo == add \cap keys
        handled == IF kuma = "notification" THEN stopAt \cap todo ELSE todo
        made == {data[u].user_name : u \in handled}
        broke == kuma = "notification" /\ handled # todo
    IN  IF add = {} /\ remove = {} THEN quiet
        ELSE IF kuma = "connect" THEN [quiet EXCEPT !.ok = FALSE]
        ELSE [monitors |-> mon1 \cup made,
              notifications |-> notif1 \cup made,
              calls |-> delCalls
                           \cup {Call("EnsureNotification", n) : n \in made}
                           \cup {Call("EnsureMonitor", n) : n \in made},
              ok |-> ~broke]

(***************************************************************************)
(* execution/watchdog.rs                                                   *)
(***************************************************************************)
\* add_instances: the keys after it; a user whose load_user fails or finds
\* no row is logged and skipped
AddInstances(keys, toAdd, unloadable) == keys \cup (toAdd \ unloadable)

\* a mutation of KeysAtSync: stop_instances has run before manage_users
KeysAfterStop(keys, toRemove) == keys \ toRemove

\* the keys of the map manage_users is handed: add_instances has run,
\* stop_instances has not
KeysAtSync(keys, toRemove) == keys

\* stop_instances without the removal from the map
AbortOnly(keys, toRemove) == keys

\* stop_instances: the keys after it
StopInstances(keys, toRemove) == keys \ toRemove

\* the snapshots after add_instances and refresh_instances (update_user
\* looks the row up again by the user_name of the snapshot it holds)
LoadSnapshots(added, refreshed, pick) ==
    [u \in Users |->
        IF u \in added THEN dbUser[pick[u]]
        ELSE IF u \in refreshed /\ GetFromUsername(db, userData[u].user_name, pick) # None
             THEN dbUser[pick[userData[u].user_name]]
        ELSE userData[u]]

\* UserInstance::new for the added keys (channels, actor task, empty
\* thread_store; a scraper left by an earlier instance of the key goes on
\* without a handle) and the abort of the actors of the removed keys
StartStopActors(added, removed, data) ==
    /\ userData' = data
    /\ actor' = [u \in Users |-> IF u \in removed THEN "aborted"
                                 ELSE IF u \in added THEN "active" ELSE actor[u]]
    /\ inbox' = [u \in Users |-> IF u \in added THEN <<>> ELSE inbox[u]]
    /\ outbox' = [u \in Users |-> IF u \in added THEN <<>> ELSE outbox[u]]
    /\ webcom_thread' = [u \in Users |-> IF u \in added THEN "none" ELSE webcom_thread[u]]
    /\ orphans' = [u \in Users |->
                      IF u \in added /\ Live(webcom_thread[u]) THEN orphans[u] + 1
                      ELSE orphans[u]]
    /\ last_exit_code' = [u \in Users |-> IF u \in added THEN OK ELSE last_exit_code[u]]
    /\ trigger' = [u \in Users |-> IF u \in added THEN "None" ELSE trigger[u]]
    /\ UNCHANGED <<threadResult, start_reason, scraperPw, journal, logbook,
                   warning_sent, lastRun, notices, apiWait, apiStatus, apiCall>>

\* start_stop_instances(db, instances, users, first_run), after
\* get_all_usernames; storeOk: the listing and the default preferences load
StartStopInstances(first_run) ==
    \E storeOk \in BOOLEAN, kuma \in KumaOutcomes, pick \in Picks(db) :
       LET names == db
           live == instances
           toRemove == live \ names
           toRefresh == live \cap names
           toAdd == names \ live
       IN  IF ~storeOk
           THEN /\ wdAlive' = FALSE
                /\ lastWd' = [NoWakeup EXCEPT !.kind = "Full", !.boot = ~wdBooted,
                                              !.first_run = first_run, !.live = live]
                /\ UNCHANGED <<instances, instanceVars, monitors, notifications>>
           ELSE \E unloadable \in SUBSET toAdd,
                   stopAt \in IF kuma = "notification" THEN SUBSET toAdd ELSE {{}} :
                   LET keys1 == AddInstances(live, toAdd, unloadable)
                       added == keys1 \ live
                       data == LoadSnapshots(added, toRefresh, pick)
                       km == IF first_run
                             THEN [monitors |-> monitors, notifications |-> notifications,
                                   calls |-> {}, ok |-> TRUE]
                             ELSE ManageUsers(toAdd, toRemove, KeysAtSync(keys1, toRemove),
                                              data, monitors, notifications, kuma, stopAt)
                   IN  /\ instances' = StopInstances(keys1, toRemove)
                       /\ StartStopActors(added, toRemove, data)
                       /\ monitors' = km.monitors
                       /\ notifications' = km.notifications
                       /\ wdAlive' = TRUE
                       /\ lastWd' = [kind |-> "Full", boot |-> ~wdBooted,
                                     first_run |-> first_run, done |-> TRUE,
                                     names |-> names, live |-> live,
                                     failed |-> unloadable,
                                     kuma |-> IF km.ok THEN "ok" ELSE kuma,
                                     calls |-> km.calls]

\* the watchdog wakes up on AllUser or FirstTime
WatchdogRefreshAll ==
    /\ wdAlive
    /\ wdInbox # <<>>
    /\ wdInbox[1].kind \in {"AllUser", "FirstTime"}
    /\ StartStopInstances(wdInbox[1] = FirstTime)
    /\ wdInbox' = <<>>
    /\ wdBooted' = TRUE
    /\ UNCHANGED <<now, props, timerVars, kumaVars, db, dbUser, requests, settingsVars, schedulerVars>>

\* the watchdog wakes up because 30 minutes passed without a request
WatchdogTimeout ==
    /\ wdAlive
    /\ wdInbox = <<>>
    /\ StartStopInstances(FALSE)
    /\ wdBooted' = TRUE
    /\ UNCHANGED <<now, props, timerVars, kumaVars, db, dbUser, requests, wdInbox, settingsVars, schedulerVars>>

\* update_individual_user(db, [user], instances); its error is only logged
UpdateIndividualUser(user) ==
    \E storeOk \in BOOLEAN, kuma \in KumaOutcomes, pick \in Picks(db),
       loadOk \in BOOLEAN :
       LET live == instances
           found == GetFromUsername(db, user, pick) # None
           toAdd == IF user \notin live THEN {user} ELSE {}
           toRemove == IF user \in live /\ ~found THEN {user} ELSE {}
           toRefresh == IF user \in live /\ found THEN {user} ELSE {}
           unloadable == IF found /\ loadOk THEN {} ELSE toAdd
           keys1 == AddInstances(live, toAdd, unloadable)
           added == keys1 \ live
           data == LoadSnapshots(added, toRefresh, pick)
           km == ManageUsers(toAdd, toRemove, KeysAtSync(keys1, toRemove), data,
                             monitors, notifications, kuma, {})
       IN  IF ~storeOk
           THEN /\ lastWd' = [NoWakeup EXCEPT !.kind = "Single", !.live = live]
                /\ UNCHANGED <<instances, instanceVars, monitors, notifications>>
           ELSE /\ instances' = StopInstances(keys1, toRemove)
                /\ StartStopActors(added, toRemove, data)
                /\ monitors' = km.monitors
                /\ notifications' = km.notifications
                /\ lastWd' = [kind |-> "Single", boot |-> FALSE, first_run |-> FALSE,
                              done |-> TRUE, names |-> db, live |-> live,
                              failed |-> unloadable,
                              kuma |-> IF km.ok THEN "ok" ELSE kuma,
                              calls |-> km.calls]

\* the watchdog wakes up on SingleUser(user)
WatchdogSingleUser ==
    /\ wdAlive
    /\ wdInbox # <<>>
    /\ wdInbox[1].kind = "SingleUser"
    /\ UpdateIndividualUser(wdInbox[1].user)
    /\ wdInbox' = <<>>
    /\ UNCHANGED <<now, props, timerVars, kumaVars, db, dbUser, requests, wdAlive, wdBooted, settingsVars, schedulerVars>>

KumaActions == {"Add", "Reset", "Delete"}

\* handle_user_request: "All" is every key of the map
HandleUserRequest(scope, keys) == IF scope = "All" THEN keys ELSE {scope}

\* the watchdog wakes up on KumaRequest((action, scope)): the monitor calls
\* alone; a failing load of the default preferences ends the watchdog
WatchdogKumaRequest ==
    /\ wdAlive
    /\ wdInbox # <<>>
    /\ wdInbox[1].kind = "KumaRequest"
    /\ \E storeOk \in BOOLEAN, kuma \in KumaOutcomes :
          LET users == HandleUserRequest(wdInbox[1].user, instances)
              add == IF wdInbox[1].action \in {"Add", "Reset"} THEN users ELSE {}
              remove == IF wdInbox[1].action \in {"Delete", "Reset"} THEN users ELSE {}
              km == ManageUsers(add, remove, instances, userData, monitors,
                                notifications, kuma, {})
          IN  IF ~storeOk
              THEN /\ wdAlive' = FALSE
                   /\ lastWd' = [NoWakeup EXCEPT !.kind = "Kuma", !.live = instances]
                   /\ UNCHANGED <<monitors, notifications>>
              ELSE /\ monitors' = km.monitors
                   /\ notifications' = km.notifications
                   /\ wdAlive' = TRUE
                   /\ lastWd' = [kind |-> "Kuma", boot |-> FALSE, first_run |-> FALSE,
                                 done |-> TRUE, names |-> db, live |-> instances,
                                 failed |-> {},
                                 kuma |-> IF km.ok THEN "ok" ELSE kuma,
                                 calls |-> km.calls]
    /\ wdInbox' = <<>>
    /\ UNCHANGED <<now, props, timerVars, kumaVars, db, dbUser, instances, instanceVars, requests, wdBooted, settingsVars, schedulerVars>>

\* the admin routes /api/refresh, /api/refresh/{user} and
\* /api/kuma/{action}/{user} hand a request to the watchdog
WdRequests ==
    {AllUser}
        \cup {WdRequest("SingleUser", u, "-") : u \in Users}
        \cup {WdRequest("KumaRequest", u, a) : u \in {"a", "All"}, a \in KumaActions}

WdSend(req) ==
    /\ wdAlive
    /\ wdInbox = <<>>
    /\ wdInbox' = <<req>>
    /\ lastWd' = NoWakeup
    /\ UNCHANGED <<now, props, timerVars, kumaVars, db, dbUser, instances, instanceVars, requests,
                   wdAlive, wdBooted, monitors, notifications, settingsVars, schedulerVars>>

\* a user row is inserted into the store from outside
StoreInsert(n) ==
    /\ n \notin db
    /\ db' = db \cup {n}
    /\ lastWd' = NoWakeup
    /\ UNCHANGED <<now, props, timerVars, kumaVars, dbUser, instances, instanceVars, requests, wdInbox,
                   wdAlive, wdBooted, monitors, notifications, settingsVars, schedulerVars>>

\* delete_account removes the row of a user
StoreDelete(n) ==
    /\ n \in db
    /\ db' = db \ {n}
    /\ lastWd' = NoWakeup
    /\ UNCHANGED <<now, props, timerVars, kumaVars, dbUser, instances, instanceVars, requests, wdInbox,
                   wdAlive, wdBooted, monitors, notifications, settingsVars, schedulerVars>>

InitWatchdog ==
    /\ now = 0
    /\ props = Props(1, 1, 1)
    /\ db \in SUBSET Users
    /\ dbUser = [u \in Users |-> UserRow(u, "pw1")]
    /\ instances = {}
    /\ requests = 0
    /\ InitInstanceVars
    /\ InitWatchdogVars
    /\ InitTimerVars
    /\ InitKumaVars
    /\ InitSettingsVars
    /\ InitSchedulerVars

NextWatchdog ==
    \/ WatchdogRefreshAll
    \/ WatchdogTimeout
    \/ WatchdogSingleUser
    \/ WatchdogKumaRequest
    \/ \E req \in WdRequests : WdSend(req)
    \/ \E n \in Users : StoreInsert(n)
    \/ \E n \in Users : StoreDelete(n)

SpecWatchdog == InitWatchdog /\ [][NextWatchdog]_vars

(***************************************************************************)
(* Claims about the watchdog                                               *)
(***************************************************************************)
\* the step just taken was a full reconcile (AllUser, FirstTime or the
\* 30 minute timeout) that ran to its end
FullReconcileDone == lastWd.kind = "Full" /\ lastWd.done

\* every load and every monitor call of the wakeup just handled worked
NothingFailed == lastWd.failed = {} /\ lastWd.kuma = "ok"

\* the names an operation of the monitor server was called with
CallsFor(op) == {c[2] : c \in {d \in lastWd.calls : d[1] = op}}

\* C2 as stated: after a full reconcile the keys of the instance map are
\* the names get_all_usernames returned.
C2_KeysEqualNames == FullReconcileDone => instances = lastWd.names

\* C2, amended: after a full reconcile the keys of the instance map are the
\* names get_all_usernames returned without the new users whose load failed;
\* every user that was live and is still listed stays, every user no longer
\* listed is gone.
C2_KeysAreLoadedNames ==
    FullReconcileDone =>
        /\ instances = lastWd.names \ lastWd.failed
        /\ lastWd.failed \subseteq lastWd.names \ lastWd.live

C2_Reached ==
    /\ FullReconcileDone
    /\ lastWd.failed # {}
    /\ lastWd.live \ lastWd.names # {}
    /\ instances # {}

\* C3: after a full reconcile in which nothing failed (the one at boot
\* included) the monitors are named exactly after the live instances.
C3_MonitorMirror == (FullReconcileDone /\ NothingFailed) => monitors = instances

C3_Reached ==
    /\ FullReconcileDone
    /\ NothingFailed
    /\ ~lastWd.boot
    /\ \A u \in instances : userData[u].user_name = u
    /\ instances \ monitors # {}

\* C4: the reconcile at boot is a first run that creates an instance for
\* every stored user and issues no monitor or notification call, and no
\* reconcile after it is a first run.
C4_BootIsFirstRun ==
    /\ (lastWd.kind = "Full" /\ lastWd.boot) => lastWd.first_run
    /\ (FullReconcileDone /\ lastWd.boot /\ lastWd.failed = {}) =>
          (lastWd.calls = {} /\ instances = lastWd.names)
    /\ (lastWd.kind = "Full" /\ ~lastWd.boot) => ~lastWd.first_run

C4_Reached ==
    /\ FullReconcileDone
    /\ lastWd.boot
    /\ ~lastWd.first_run
    /\ lastWd.calls # {}

\* C5: a full reconcile that is not a first run, and in which nothing
\* failed, issues EnsureNotification and EnsureMonitor for exactly the names
\* stored but not live, DeleteMonitor and DeleteNotification only for names
\* live but not stored, and no call for a name both stored and live.
C5_MonitorCallsFollowDiff ==
    (FullReconcileDone /\ ~lastWd.first_run /\ NothingFailed) =>
        /\ CallsFor("EnsureNotification") = lastWd.names \ lastWd.live
        /\ CallsFor("EnsureMonitor") = lastWd.names \ lastWd.live
        /\ CallsFor("DeleteMonitor") \subseteq lastWd.live \ lastWd.names
        /\ CallsFor("DeleteNotification") \subseteq lastWd.live \ lastWd.names
        /\ \A c \in lastWd.calls : c[2] \notin lastWd.names \cap lastWd.live

C5_Reached ==
    /\ FullReconcileDone
    /\ ~lastWd.first_run
    /\ NothingFailed
    /\ lastWd.names \ lastWd.live # {}
    /\ lastWd.live \ lastWd.names # {}
    /\ \E c \in lastWd.calls : c[2] \in lastWd.names \cap lastWd.live

(***************************************************************************)
(* Specification of the planner of execution times                         *)
(***************************************************************************)
\* the times of day, intervals (minutes), execution minutes and elapsed
\* minutes the planner is explored with
ClockHours == {0, 23}
ClockMinutes == {0, 30, 59}
ClockSeconds == {0, 59}
Clock == {Time(h, m, sec) : h \in ClockHours, m \in ClockMinutes, sec \in ClockSeconds}
Intervals == {1, 120, 1440}
ExecutionMinutes == {0, 30, 59, 60}
ElapsedMinutes == {30, 2000}

\* the local clock shows another time; plan is the plan made at the time shown
ClockMoves ==
    /\ \E t \in Clock : sysTime' = t
    /\ sysTime' # sysTime
    /\ plan' = NoPlan
    /\ UNCHANGED <<now, props, db, dbUser, instances, instanceVars, requests,
                   watchdogVars, kumaVars, settingsVars, schedulerVars>>

\* UserInstance::new plans the first execution of an instance
PlanInitial ==
    /\ \E last \in {None} \cup {Some(e) : e \in ElapsedMinutes},
          interval \in Intervals, minute \in ExecutionMinutes :
          \E k \in 0..IntervalHours(interval) :
             plan' = [kind |-> "Initial", at |-> sysTime, last |-> last,
                      interval |-> interval, minute |-> minute, k |-> k,
                      result |-> CalculateInitialExecutionTime(sysTime, last, interval,
                                                               minute, k)]
    /\ UNCHANGED <<now, props, db, dbUser, instances, instanceVars, requests,
                   watchdogVars, kumaVars, sysTime, settingsVars, schedulerVars>>

\* execution_timer re-plans an instance whose execution time has come
PlanNext ==
    /\ \E interval \in Intervals, minute \in ExecutionMinutes :
          plan' = [kind |-> "Next", at |-> sysTime, last |-> None,
                   interval |-> interval, minute |-> minute, k |-> 0,
                   result |-> CalculateNextExecutionTime(sysTime, interval, minute)]
    /\ UNCHANGED <<now, props, db, dbUser, instances, instanceVars, requests,
                   watchdogVars, kumaVars, sysTime, settingsVars, schedulerVars>>

InitTimer ==
    /\ now = 0
    /\ props = Props(1, 1, 1)
    /\ db = {"a"}
    /\ dbUser = [u \in Users |-> UserRow(u, "pw1")]
    /\ instances = {"a"}
    /\ requests = 0
    /\ InitInstanceVars
    /\ InitWatchdogVars
    /\ InitTimerVars
    /\ InitKumaVars
    /\ InitSettingsVars
    /\ InitSchedulerVars

NextTimer == ClockMoves \/ PlanInitial \/ PlanNext

SpecTimer == InitTimer /\ [][NextTimer]_vars

(***************************************************************************)
(* Claims about the planner                                                *)
(***************************************************************************)
\* minutes from time of day t1 forward to time of day t2
MinutesUntil(t1, t2) ==
    ((t2.hour * 60 + t2.minute) - (t1.hour * 60 + t1.minute)) % MinutesPerDay

\* the latest plan is the first plan of an instance never run by the timer,
\* or run longer ago than its interval
FirstSimplePlanned ==
    /\ plan.kind = "Initial"
    /\ plan.minute \in 0..59
    /\ (plan.last = None \/ plan.interval - plan.last[1] <= 0)

\* the latest plan restores the time left of the interval
RemainingPlanned ==
    /\ plan.kind = "Initial"
    /\ plan.minute \in 0..59
    /\ plan.last # None
    /\ plan.interval - plan.last[1] > 0

\* C11: an initial plan with remaining = interval - elapsed > 0 is the time of
\* day now + remaining minutes with the seconds zeroed, so at most interval
\* minutes ahead; with remaining <= 0 or no last execution it is the plan of
\* calculate_first_execution_time_simple.
C11_InitialPlanRestoresRemaining ==
    /\ RemainingPlanned =>
          /\ plan.result = AddMinutes(GetSystemTimeZeroSeconds(plan.at),
                                      plan.interval - plan.last[1])
          /\ MinutesUntil(plan.at, plan.result) <= plan.interval
    /\ FirstSimplePlanned =>
          plan.result = CalculateFirstExecutionTimeSimple(plan.at, plan.interval,
                                                          plan.minute, plan.k)

C11_Reached ==
    /\ RemainingPlanned
    /\ plan.interval = 120
    /\ plan.at = Time(23, 30, 59)
    /\ plan.result = Time(0, 30, 0)

\* C12: the re-plan is the time of day now + max(1, interval / 60) hours,
\* wrapped at 24 h, with the seconds zeroed and the minute set to the
\* execution minute, for every execution minute in 0..59 and interval in
\* 1..1440.
C12_NextPlanHourAndMinute ==
    (plan.kind = "Next" /\ plan.minute \in 0..59 /\ plan.interval \in 1..1440) =>
        LET h == IF plan.interval \div 60 > 1 THEN plan.interval \div 60 ELSE 1
        IN  plan.result = Time((plan.at.hour + h) % 24, plan.minute, 0)

C12_Reached ==
    /\ plan.kind = "Next"
    /\ plan.interval = 1440
    /\ plan.minute = 59
    /\ plan.at = Time(23, 30, 59)
    /\ plan.result = Time(23, 59, 0)

\* C13: the first plan of a user never run by the timer lies no more than
\* two hours ahead of now, the hour offset being drawn from 0..h with
\* h = interval / 60 kept within 1..2.
C13_FirstPlanWithinTwoHours ==
    (FirstSimplePlanned /\ plan.last = None /\ plan.interval \in 1..1440) =>
        /\ plan.k <= 2
        /\ MinutesUntil(GetSystemTimeZeroSeconds(plan.at), plan.result) <= 120

C13_Reached ==
    /\ FirstSimplePlanned
    /\ plan.last = None
    /\ plan.interval = 1440
    /\ plan.k = 24

\* C14: the minute of a first plan is the execution minute when the minute
\* of now is below it or the hour offset is not 0, and the minute of now
\* plus one, wrapped at 60, otherwise.
C14_FirstPlanMinute ==
    FirstSimplePlanned =>
        plan.result.minute =
            IF plan.at.minute < plan.minute \/ plan.k # 0 THEN plan.minute
            ELSE (plan.at.minute + 1) % 60

C14_Reached ==
    /\ FirstSimplePlanned
    /\ plan.at.minute = 59
    /\ plan.k = 0
    /\ plan.minute = 30
    /\ plan.result.minute = 59

(***************************************************************************)
(* Specification of the API in front of one instance and the watchdog      *)
(***************************************************************************)
\* the actions a path may name: those of the API and one that does not parse
PathActions == ApiActions \cup ApiActionsLater \cup {"bogus"}

\* the watchdog has handled the request of the boot and waits for the next
InitApi ==
    /\ now = 0
    /\ props = Props(1, 1, 1)
    /\ db = {"a"}
    /\ dbUser = [u \in Users |-> UserRow(u, "pw1")]
    /\ instances = {"a"}
    /\ requests = 0
    /\ InitInstanceVars
    /\ InitTimerVars
    /\ InitKumaVars
    /\ InitSettingsVars
    /\ InitSchedulerVars
    /\ wdInbox = <<>>
    /\ wdAlive = TRUE
    /\ wdBooted = TRUE
    /\ monitors = {"a"}
    /\ notifications = {"a"}
    /\ lastWd = NoWakeup

NextApi ==
    \/ \E u \in {"a", "c"}, key \in Keys, action \in PathActions : ApiCall(u, key, action)
    \/ \E key \in Keys, req \in {AllUser, WdRequest("SingleUser", "a", "-")} :
          ApiRefresh(key, req)
    \/ ApiReceive("a")
    \/ ApiTimeout("a")
    \/ HandleQuery("a")
    \/ HandleStart("a")
    \/ HandleWelcome("a")
    \/ HandleDelete("a")

SpecApi == InitApi /\ [][NextApi]_vars

(***************************************************************************)
(* Claims about the API                                                    *)
(***************************************************************************)
\* the step is a call of the API
ApiCalled == requests' = requests + 1

C16_DeniedStep ==
    (ApiCalled /\ apiCall'.key # Some(API_KEY)) =>
        /\ apiStatus' = 401
        /\ UNCHANGED <<now, props, db, dbUser, instances, userData, inbox, outbox, actor,
                       webcom_thread, threadResult, start_reason, scraperPw, orphans,
                       last_exit_code, trigger, journal, logbook, warning_sent,
                       lastRun, notices, apiWait, watchdogVars, timerVars, kumaVars, settingsVars, schedulerVars>>

\* C16: a call of an /api route whose key parameter is missing or is not
\* $API_KEY is answered 401 and changes nothing: no StartRequest enters the
\* inbox of an instance, no request enters the inbox of the watchdog.
C16_DeniedHasNoEffect == [][C16_DeniedStep]_vars

C16_Reached ==
    /\ apiCall.key = Some("guess")
    /\ apiCall.user = "a"
    /\ apiStatus = 401
    /\ inbox["a"] = <<>>
    /\ wdInbox = <<>>

C17_BadRequestStep ==
    (ApiCalled /\ apiCall'.key = Some(API_KEY)) =>
        /\ (apiCall'.user \notin instances \cup {"-"} \/ ~apiCall'.parsed) =>
              (apiStatus' = 400 /\ UNCHANGED inbox)
        /\ (apiStatus' = 500 /\ apiCall'.user # "-") =>
              (inbox[apiCall'.user] # <<>> \/ actor[apiCall'.user] # "active")

\* C17: a call that names a user without an instance, or an action that
\* does not parse, is answered 400 and sends no StartRequest; a call is
\* answered 500 at once only when the inbox of the instance is full or its
\* channel is closed.
C17_BadRequestIs400 == [][C17_BadRequestStep]_vars

C17_Reached ==
    /\ apiCall.key = Some(API_KEY)
    /\ apiCall.user = "c"
    /\ apiStatus = 404
    /\ inbox["a"] = <<>>

\* the secrets a user may have as password
Secrets == Passwords \cup {"correct horse"}

\* C19: the password field of a UserData response is the same whatever the
\* plaintext of the password is, so two instances whose users differ only
\* in the password answer alike.
C19_UserDataHidesSecret ==
    \A u \in instances :
        (outbox[u] # <<>> /\ outbox[u][1].kind = "UserData") =>
            \A secret \in Secrets :
                outbox[u][1].val = SerializeUserData([userData[u] EXCEPT !.password = secret])

C19_Reached ==
    /\ outbox["a"] # <<>>
    /\ outbox["a"][1] = Response("UserData", <<"a", "[REDACTED, 3 bytes]">>)

(***************************************************************************)
(* Specification of the monitor server under the calls of kuma.rs          *)
(***************************************************************************)
\* the monitor server hands out ids up to this one
MaxKumaId == 4

KumaUsers == {"a", "c"}

\* every call of the client fails while the connection is down: the lookup
\* finds nothing (.ok()?) and the add that follows fails, nothing is created
EnsureFails(op, name) ==
    /\ lastEnsure' = [NoEnsure EXCEPT !.op = op, !.name = name]
    /\ lastEnsure' # lastEnsure
    /\ UNCHANGED <<now, props, timerVars, db, dbUser, instances, instanceVars, requests,
                   watchdogVars, kumaMonitors, kumaNotifications, kumaNextId, settingsVars, schedulerVars>>

\* the Ensure* steps of manage_users under a working connection
EnsureMonitor(user_name) ==
    /\ kumaNextId <= MaxKumaId
    /\ LET r == CreateMonitor(kumaMonitors, kumaNextId, user_name)
       IN  /\ kumaMonitors' = r.monitors
           /\ kumaNextId' = IF r.created THEN kumaNextId + 1 ELSE kumaNextId
           /\ lastEnsure' = [op |-> "EnsureMonitor", name |-> user_name,
                             met |-> {m.id : m \in {x \in kumaMonitors : x.name = user_name}},
                             id |-> r.id, created |-> r.created]
    /\ UNCHANGED <<now, props, timerVars, db, dbUser, instances, instanceVars, requests,
                   watchdogVars, kumaNotifications, settingsVars, schedulerVars>>

EnsureNotification(user_name) ==
    /\ kumaNextId <= MaxKumaId
    /\ LET r == CreateNotification(kumaNotifications, kumaNextId, user_name)
       IN  /\ kumaNotifications' = r.notifications
           /\ kumaNextId' = IF r.created THEN kumaNextId + 1 ELSE kumaNextId
           /\ lastEnsure' =
                 [op |-> "EnsureNotification", name |-> user_name,
                  met |-> {n.id : n \in {x \in kumaNotifications :
                                            x.name = NotificationName(user_name)}},
                  id |-> r.id, created |-> r.created]
    /\ UNCHANGED <<now, props, timerVars, db, dbUser, instances, instanceVars, requests,
                   watchdogVars, kumaMonitors, settingsVars, schedulerVars>>

EnsureGroup ==
    /\ kumaNextId <= MaxKumaId
    /\ LET r == CreateMonitorGroup(kumaMonitors, kumaNextId, APPLICATION_NAME)
       IN  /\ kumaMonitors' = r.monitors
           /\ kumaNextId' = IF r.created THEN kumaNextId + 1 ELSE kumaNextId
           /\ lastEnsure' =
                 [op |-> "EnsureGroup", name |-> APPLICATION_NAME,
                  met |-> {m.id : m \in {x \in kumaMonitors :
                                            x.kind = "group" /\ x.name = APPLICATION_NAME}},
                  id |-> r.id, created |-> r.created]
    /\ UNCHANGED <<now, props, timerVars, db, dbUser, instances, instanceVars, requests,
                   watchdogVars, kumaNotifications, settingsVars, schedulerVars>>

\* the delete loop of manage_users for one user: the monitor and the
\* notification found by name are deleted
DeleteMonitorAndNotification(user_name) ==
    /\ LET mon == GetMonitorId(kumaMonitors, user_name)
           notif == GetNotificationId(kumaNotifications, user_name)
       IN  /\ mon # None \/ notif # None
           /\ kumaMonitors' =
                 IF mon = None THEN kumaMonitors
                 ELSE {m \in kumaMonitors : m.id # mon[1]}
           /\ kumaNotifications' =
                 IF notif = None THEN kumaNotifications
                 ELSE {n \in kumaNotifications : n.id # notif[1]}
           /\ lastEnsure' = [NoEnsure EXCEPT !.op = "Delete", !.name = user_name]
    /\ UNCHANGED <<now, props, timerVars, db, dbUser, instances, instanceVars, requests,
                   watchdogVars, kumaNextId, settingsVars, schedulerVars>>

InitKuma ==
    /\ now = 0
    /\ props = Props(1, 1, 1)
    /\ db = {"a"}
    /\ dbUser = [u \in Users |-> UserRow(u, "pw1")]
    /\ instances = {"a"}
    /\ requests = 0
    /\ InitInstanceVars
    /\ InitWatchdogVars
    /\ InitTimerVars
    /\ InitKumaVars
    /\ InitSettingsVars
    /\ InitSchedulerVars

NextKuma ==
    \/ EnsureGroup
    \/ \E u \in KumaUsers :
          \/ EnsureMonitor(u)
          \/ EnsureNotification(u)
          \/ DeleteMonitorAndNotification(u)
          \/ EnsureFails("Failed", u)

SpecKuma == InitKuma /\ [][NextKuma]_vars

LifecycleNow == 40

\* the dates a row may hold when the instance is loaded
LifecycleDates == {None, Some(5), Some(9), Some(10), Some(16), Some(17), Some(39)}

LifecycleRows ==
    {[UserRow("a", "pw1") EXCEPT !.auto_delete_account = auto,
                                 !.creation_date = created,
                                 !.last_succesfull_sign_in_date = sign,
                                 !.last_execution_date = exec] :
        auto \in BOOLEAN, created \in {0, LifecycleNow - 1, LifecycleNow},
        sign \in LifecycleDates, exec \in {None, Some(39)}}

\* a row the program can have written: no date before the creation, a
\* sign-in only in an execution, and the last execution not before it
WrittenRow(row) ==
    LET sign == row.last_succesfull_sign_in_date
        exec == row.last_execution_date
    IN  /\ sign # None => (exec # None /\ row.creation_date <= sign[1] /\ sign[1] <= exec[1])
        /\ exec # None => row.creation_date <= exec[1]

InitLifecycle ==
    /\ now = LifecycleNow
    /\ props = Props(1, 1, 1)
    /\ db = {"a"}
    /\ \E row \in {r \in LifecycleRows : WrittenRow(r)} :
          /\ dbUser = [u \in Users |-> IF u = "a" THEN row ELSE UserRow(u, "pw1")]
          /\ userData = dbUser
    /\ instances = {"a"}
    /\ requests = 0
    /\ inbox = [u \in Users |-> <<>>]
    /\ outbox = [u \in Users |-> <<>>]
    /\ actor = [u \in Users |-> "active"]
    /\ webcom_thread = [u \in Users |-> "none"]
    /\ threadResult = [u \in Users |-> OK]
    /\ start_reason = [u \in Users |-> "None"]
    /\ scraperPw = [u \in Users |-> "pw1"]
    /\ orphans = [u \in Users |-> 0]
    /\ last_exit_code = [u \in Users |-> OK]
    /\ trigger = [u \in Users |-> "None"]
    /\ journal = [u \in Users |-> DefaultJournal]
    /\ logbook = [u \in Users |-> OK]
    /\ warning_sent \in {[u \in Users |-> FALSE], [u \in Users |-> u = "a"]}
    /\ lastRun = [u \in Users |-> NoRun]
    /\ notices = [u \in Users |-> <<>>]
    /\ apiWait = [u \in Users |-> <<>>]
    /\ apiStatus = 0
    /\ apiCall = NoCall
    /\ InitWatchdogVars
    /\ InitTimerVars
    /\ InitKumaVars
    /\ InitSettingsVars
    /\ InitSchedulerVars

NextLifecycle ==
    \/ TimerTick("a")
    \/ HandleStart("a")
    \/ ScraperRun("a")
    \/ ScraperExit("a")
    \/ HandleExecutionFinished("a")

SpecLifecycle == InitLifecycle /\ [][NextLifecycle]_vars

(***************************************************************************)
(* Claims about the deletion of an account for age                         *)
(***************************************************************************)
DeleteVerdicts == {"MustDelete", "MustDeleteFresh"}

\* the actor of u handles ExecutionFinished and gets through the pipeline
PipelineRuns(u) == Handles(u, {"ExecutionFinished"}) /\ actor'[u] # "panicked"

\* the row of u as step 1 of the pipeline writes it
Stamped(u) ==
    UpdateInstanceTimestamps(userData[u], inbox[u][1].code,
                             ExecutionBySystem(trigger[u]), now)

DeletionMails(u) ==
    {i \in DOMAIN notices[u] : notices[u][i].kind \in {"OldAge", "NewDead"}}

C15_Step ==
    /\ (/\ PipelineRuns("a")
        /\ "a" \in db
        /\ GetStanding(userData["a"], now) \in DeleteVerdicts
        /\ GetStanding(Stamped("a"), now) = GetStanding(userData["a"], now))
       => /\ "a" \notin db'
          /\ \E i \in DOMAIN notices'["a"] :
                notices'["a"][i].kind =
                    (IF GetStanding(userData["a"], now) = "MustDelete"
                     THEN "OldAge" ELSE "NewDead")
          /\ inbox'["a"] = <<Request("Delete")>> \/ actor'["a"] = "exited"
    /\ ("a" \notin db /\ ~Live(webcom_thread["a"])) => ~Live(webcom_thread'["a"])

\* C15: when the check after a run finds MustDelete or MustDeleteFresh the
\* account-deleted mail (OldAge or NewDead) is sent, the row is deleted and
\* the instance ends: Delete is in its inbox or its actor has stopped, and
\* no scraper is launched for the deleted user afterwards.
C15_DeletionTerminates == [][C15_Step]_vars

C15_Reached ==
    /\ "a" \notin db
    /\ actor["a"] = "active"
    /\ webcom_thread["a"] = "running"
    /\ userData["a"].last_succesfull_sign_in_date = Some(5)
    /\ userData["a"].last_execution_date = Some(LifecycleNow)

C20_Step ==
    (/\ PipelineRuns("a")
     /\ "a" \in db
     /\ userData["a"].auto_delete_account
     /\ inbox["a"][1].code # SignInFailed("IncorrectCredentials"))
    => /\ "a" \in db'
       /\ \A i \in DOMAIN notices'["a"] : notices'["a"][i].kind \notin {"OldAge", "NewDead"}
       /\ ~warning_sent'["a"]

\* C20: the check after a run judges the timestamps the same pipeline has
\* just written: a run of a user with auto_delete_account that ends with a
\* code other than SignInFailed(IncorrectCredentials) is judged Safe, the
\* account stays and no deletion mail or warning follows, however old the
\* sign-in stored before was.
C20_SuccessfulRunIsSafe == [][C20_Step]_vars

C20_Reached ==
    /\ "a" \notin db
    /\ DeletionMails("a") # {}
    /\ userData["a"].auto_delete_account
    /\ userData["a"].last_succesfull_sign_in_date = Some(now)

(***************************************************************************)
(* Claims about the end of a run and the requests that follow it           *)
(***************************************************************************)
\* the scraper of u ends its run: clean_execution reports the exit code
RunEnds(u) == webcom_thread[u] = "running" /\ webcom_thread'[u] = "cleaning"

C21_Step ==
    \A u \in Users :
        /\ (RunEnds(u) /\ actor[u] = "active") =>
              inbox'[u] = <<ExecutionFinished(threadResult'[u])>>
        /\ RunEnds(u) => actor'[u] = actor[u]

\* C21: a run that ends puts its ExecutionFinished(code) into the inbox of
\* its actor, whatever Timer and API requests the inbox holds, so that the
\* actor handles it; the end of a run, whatever its code, leaves the actor
\* as it was.
C21_RunIsReported == [][C21_Step]_vars

C21_Reached ==
    /\ webcom_thread["a"] = "cleaning"
    /\ actor["a"] = "active"
    /\ inbox["a"] # <<>>
    /\ inbox["a"][1].kind \in {"Timer", "Api"}

C22_Step ==
    \A u \in Users :
        (Handles(u, {"ExecutionFinished"}) /\ actor'[u] = "active") =>
            /\ last_exit_code'[u] = inbox[u][1].code
            /\ QueryResponse(u, "ExitCode")' = Response("ExitCode", inbox[u][1].code)
            /\ QueryResponse(u, "IsActive")' = Response("Active", Bool(FALSE))
            /\ SpawnWebcomInstance(webcom_thread'[u])
            /\ outbox'[u] = outbox[u]

\* C22: once the actor has handled ExecutionFinished(code) the instance is
\* idle with last_exit_code = code: an ExitCode query would be answered
\* code, an IsActive query false, an Api start would spawn a scraper; the
\* handling of ExecutionFinished puts nothing into the outbox.
C22_FinishedMeansIdle == [][C22_Step]_vars

C22_Reached ==
    /\ requests = 1
    /\ userData["a"].last_execution_date # None
    /\ webcom_thread["a"] = "finished"
    /\ threadResult["a"] = GeckoEngine
    /\ last_exit_code["a"] = OK
    /\ QueryResponse("a", "ExitCode") = Response("ExitCode", OK)

\* the kind of RequestResponse the actor produces for an action of the API
ResponseKindFor(u, action) ==
    IF action \in Queries THEN QueryResponse(u, action).kind
    ELSE IF action = "Api" THEN "Active"
    ELSE "GenResponse"

\* the caller waiting for u takes a response from the outbox
ApiReceives(u) == apiWait[u] # <<>> /\ apiWait'[u] = <<>> /\ outbox[u] # <<>> /\ outbox'[u] = <<>>

C23_Step ==
    \A u \in Users :
        ApiReceives(u) =>
            /\ inbox[u] # <<Request(apiWait[u][1])>>
            /\ outbox[u][1].kind = ResponseKindFor(u, apiWait[u][1])

\* C23: the response a caller of the API takes was made by the actor for
\* the request of that caller: the request has been taken by the actor and
\* the response is of the kind that answers it; the response to a request
\* whose caller timed out is never taken by a later caller.
C23_ResponseAnswersRequest == [][C23_Step]_vars

C23_Reached ==
    /\ apiStatus = 200
    /\ apiWait["a"] = <<>>
    /\ outbox["a"] = <<>>
    /\ inbox["a"] = <<Request("ExitCode")>>
    /\ requests = 2

(***************************************************************************)
(* Claims about the failures the watchdog meets                            *)
(***************************************************************************)
\* C24: the inbox of the watchdog is never closed here, so the watchdog is
\* running in every state: no failure of the store or of the monitor server
\* during a reconcile, a refresh of one user or a monitor command ends it.
C24_WatchdogSurvivesFailures == wdAlive

C24_Reached ==
    /\ ~wdAlive
    /\ lastWd.kind = "Full"
    /\ ~lastWd.boot
    /\ ~lastWd.done

(***************************************************************************)
(* Claims about the failures the pipeline after a run meets                *)
(***************************************************************************)
C25_Step ==
    \A u \in Users : Handles(u, {"ExecutionFinished"}) => actor'[u] = "active"

\* C25: whatever fails while the actor handles ExecutionFinished, the
\* database being out of reach included, the actor is alive afterwards and
\* goes on taking requests.
C25_PipelineFailureIsSwallowed == [][C25_Step]_vars

C25_Reached ==
    /\ actor["a"] = "panicked"
    /\ requests = 1
    /\ webcom_thread["a"] = "cleaning"
    /\ inbox["a"] = <<>>

(***************************************************************************)
(* Further claims about the journal                                        *)
(***************************************************************************)
\* C26: when a run has called update_signin_failure, the journal file holds
\* what the call computed, whatever became of the mails: the hash of the
\* current password, and the error with a count of at least 1 after a failed
\* sign-in, no error and count 0 after a successful one.
C26_UpdateIsPersisted ==
    \A u \in instances :
        LET r == lastRun[u]
        IN  Ran(r) /\ r.update.called =>
               /\ journal[u].previous_password_hash = PasswordHash(r.pw)
               /\ SignInFailedIn(r) =>
                     (journal[u].error \in SignInFailures /\ journal[u].retry_count >= 1)
               /\ SignInSucceeded(r) =>
                     (journal[u].error = "None" /\ journal[u].retry_count = 0)

C26_Reached ==
    LET r == lastRun["a"]
    IN  /\ Ran(r) /\ SignInFailedIn(r) /\ ~r.update.ok
        /\ HashDiffers(r)
        /\ journal["a"].previous_password_hash # PasswordHash(r.pw)
        /\ journal["a"].error = "None"

\* C27: a run that is not forced and meets an unchanged password hash gets
\* the resume reason IncorrectCredentials when the journal holds that error
\* (it is skipped, reports SignInFailed(IncorrectCredentials) and attempts
\* no sign-in); otherwise SigninFailureReduce exactly when the stored
\* retry_count is not a multiple of signin_fail_execution_reduce, else Ok.
C27_ResumeReason ==
    \A u \in instances :
        LET r == lastRun[u]
        IN  Ran(r) /\ r.start_reason # "Force" /\ ~HashDiffers(r) =>
               IF r.before.error = "IncorrectCredentials"
               THEN /\ r.reason = "IncorrectCredentials"
                    /\ r.skipped
                    /\ r.code = SignInFailed("IncorrectCredentials")
                    /\ ~r.attempted
               ELSE r.reason =
                       (IF r.before.retry_count % props.signin_fail_execution_reduce # 0
                        THEN "SigninFailureReduce" ELSE "Ok")

C27_Reached ==
    LET r == lastRun["a"]
    IN  /\ Ran(r) /\ r.start_reason = "Timer" /\ ~HashDiffers(r)
        /\ r.before.error = "TooManyTries"
        /\ r.before.retry_count = 1
        /\ props.signin_fail_execution_reduce = 2
        /\ r.reason = "Ok"

\* C28: a run started by the timer that meets a journal without error, with
\* retry_count 0 and an unchanged password hash is not skipped, and reports
\* a SignInFailed code only after a sign-in was attempted.
C28_CleanJournalIsNotThrottled ==
    \A u \in instances :
        LET r == lastRun[u]
        IN  (/\ Ran(r) /\ r.start_reason # "Force" /\ ~HashDiffers(r)
             /\ r.before.error = "None" /\ r.before.retry_count = 0)
            => /\ ~r.skipped
               /\ r.code \in {SignInFailed(f) : f \in SignInFailures \cup {"Unknown"}}
                     => r.attempted

C28_Reached ==
    LET r == lastRun["a"]
    IN  /\ Ran(r) /\ r.start_reason = "Timer"
        /\ r.before = [retry_count |-> 0, error |-> "None",
                       previous_password_hash |-> PasswordHash(r.pw)]
        /\ props.signin_fail_execution_reduce = 2
        /\ r.skipped
        /\ r.code = SignInFailed("Unknown")
        /\ ~r.attempted

(***************************************************************************)
(* Claims about the standing of an account                                 *)
(***************************************************************************)
\* the standing of a row at time t as the table of verdicts gives it
StandingTable(user, t) ==
    LET s == user.last_succesfull_sign_in_date
    IN  IF ~user.auto_delete_account THEN "Safe"
        ELSE IF s = None
        THEN IF t - user.creation_date >= 1 THEN "MustDeleteFresh" ELSE "Fresh"
        ELSE IF s = user.last_execution_date THEN "Safe"
        ELSE IF t - s[1] >= 31 THEN "MustDelete"
        ELSE IF t - s[1] >= 24 THEN "AlmostDeleted"
        ELSE "InDanger"

WarningMails(u) == {i \in DOMAIN notices[u] : notices[u][i].kind = "DeletionWarning"}

C30_Step ==
    (PipelineRuns("a") /\ warning_sent["a"]) => WarningMails("a")' = {}

\* C30: a run that ends while the warning_sent marker exists sends no
\* DeletionWarning: of consecutive runs of a user who stays AlmostDeleted
\* only the first, which meets no marker, sends the warning.
C30_WarningOnlyOnce == [][C30_Step]_vars

(***************************************************************************)
(* Specification of the properties the instances read                      *)
(***************************************************************************)
SettingsUsers == {"a", "c"}

DefaultValues == {"D1", "D2"}

\* the custom properties of a user
CustomOf(u) == "C" \o u

\* the order in which a reconcile goes through the instances to refresh
Orders(S) ==
    {o \in UNION {[1..n -> S] : n \in {Cardinality(S)}} :
        \A i, j \in DOMAIN o : i # j => o[i] # o[j]}

\* UserInstanceData::load_user: the cell of a new instance
LoadUser(custom) == IF custom # None THEN "own" ELSE "shared"

\* UserInstanceData::update_user: custom properties are written into the
\* cell the instance holds, nothing is done without them
UpdateUser(cells, u, custom) ==
    IF custom = None THEN cells
    ELSE IF cells.settings[u] = "shared" THEN [cells EXCEPT !.shared = custom[1]]
    ELSE [cells EXCEPT !.own[u] = custom[1]]

\* refresh_instances over the instances in the order given
RECURSIVE RefreshInstances(_, _)
RefreshInstances(order, cells) ==
    IF order = <<>> THEN cells
    ELSE RefreshInstances(Tail(order),
                          UpdateUser(cells, Head(order), custom_general_properties[Head(order)]))

\* get_default_preferences, add_instances, refresh_instances, stop_instances
\* of a reconcile over the users to add, to refresh and to remove
ReconcileSettings(toAdd, toRefresh, toRemove) ==
    \E order \in Orders(toRefresh) :
        LET loaded == [settings |->
                          [u \in Users |->
                              IF u \in toAdd THEN LoadUser(custom_general_properties[u])
                              ELSE general_settings[u]],
                       own |->
                          [u \in Users |->
                              IF u \in toAdd /\ custom_general_properties[u] # None
                              THEN custom_general_properties[u][1]
                              ELSE ownSettings[u]],
                       shared |-> defaultRow]
            cells == RefreshInstances(order, loaded)
        IN  /\ DEFAULT_PROPERTIES' = cells.shared
            /\ general_settings' = cells.settings
            /\ ownSettings' = cells.own
            /\ instances' = (instances \cup toAdd) \ toRemove
            /\ reconciled' = TRUE
            /\ UNCHANGED <<defaultRow, custom_general_properties, db>>

\* start_stop_instances
SettingsReconcile ==
    /\ ReconcileSettings(db \ instances, instances \cap db, instances \ db)
    /\ UNCHANGED <<now, props, dbUser, instanceVars, requests, watchdogVars, timerVars,
                   kumaVars, schedulerVars>>

\* update_individual_user for one user
SettingsRefreshUser(u) ==
    /\ ReconcileSettings({u} \ instances, {u} \cap instances \cap db,
                         ({u} \cap instances) \ db)
    /\ UNCHANGED <<now, props, dbUser, instanceVars, requests, watchdogVars, timerVars,
                   kumaVars, schedulerVars>>

\* the operator gives custom properties to a user or takes them away
SetCustom(u) ==
    /\ custom_general_properties' =
          [custom_general_properties EXCEPT
              ![u] = IF @ = None THEN Some(CustomOf(u)) ELSE None]
    /\ reconciled' = FALSE
    /\ UNCHANGED <<now, props, db, dbUser, instances, instanceVars, requests, watchdogVars,
                   timerVars, kumaVars, schedulerVars, DEFAULT_PROPERTIES,
                   general_settings, ownSettings, defaultRow>>

\* the operator changes the default properties
SetDefault ==
    /\ \E v \in DefaultValues \ {defaultRow} : defaultRow' = v
    /\ reconciled' = FALSE
    /\ UNCHANGED <<now, props, db, dbUser, instances, instanceVars, requests, watchdogVars,
                   timerVars, kumaVars, schedulerVars, DEFAULT_PROPERTIES,
                   general_settings, ownSettings, custom_general_properties>>

\* a user is added to or deleted from the user table
SetUser(u) ==
    /\ db' = IF u \in db THEN db \ {u} ELSE db \cup {u}
    /\ reconciled' = FALSE
    /\ UNCHANGED <<now, props, dbUser, instances, instanceVars, requests, watchdogVars,
                   timerVars, kumaVars, schedulerVars, DEFAULT_PROPERTIES,
                   general_settings, ownSettings, defaultRow, custom_general_properties>>

InitSettings ==
    /\ now = 0
    /\ props = Props(1, 1, 1)
    /\ db = SettingsUsers
    /\ dbUser = [u \in Users |-> UserRow(u, "pw1")]
    /\ instances = {}
    /\ requests = 0
    /\ InitInstanceVars
    /\ InitWatchdogVars
    /\ InitTimerVars
    /\ InitKumaVars
    /\ InitSettingsVars
    /\ InitSchedulerVars

NextSettings ==
    \/ SettingsReconcile
    \/ SetDefault
    \/ \E u \in SettingsUsers :
          \/ SettingsRefreshUser(u)
          \/ SetCustom(u)
          \/ SetUser(u)

SpecSettings == InitSettings /\ [][NextSettings]_vars

(***************************************************************************)
(* Claims about the properties the instances read                          *)
(***************************************************************************)
\* the properties the instance of u reads
EffectiveProperties(u) ==
    IF general_settings[u] = "shared" THEN DEFAULT_PROPERTIES ELSE ownSettings[u]

\* C31: when a reconcile has run and no row has changed since, every
\* instance reads the custom properties of its user if the user has any and
\* the default properties stored otherwise.
C31_EffectiveProperties ==
    reconciled =>
        \A u \in instances :
            EffectiveProperties(u) =
                (IF custom_general_properties[u] # None
                 THEN custom_general_properties[u][1] ELSE defaultRow)

C31_Reached ==
    /\ reconciled
    /\ instances = {"a", "c"}
    /\ custom_general_properties["a"] = Some(CustomOf("a"))
    /\ custom_general_properties["c"] = None
    /\ general_settings["a"] = "shared"
    /\ EffectiveProperties("c") = CustomOf("a")

\* ---------------------------------------------------------------------
\* An instance that is stopped and created again while its scraper runs:
\* the store row of "a" is deleted and inserted between watchdog wakeups,
\* the actor of "a" starts runs on timer requests.
\* ---------------------------------------------------------------------

InitRecreate == InitInstance

NextRecreate ==
    \/ StoreDelete("a")
    \/ StoreInsert("a")
    \/ WatchdogRefreshAll
    \/ WatchdogTimeout
    \/ TimerTick("a")
    \/ HandleStart("a")
    \/ ScraperRun("a")
    \/ ScraperExit("a")
    \/ HandleExecutionFinished("a")

SpecRecreate == InitRecreate /\ [][NextRecreate]_vars

\* C32: at most one scraper task per user name is live at any time, also
\* across the removal and re-creation of the instance: the scraper of an
\* instance the watchdog has stopped is not live any more
C32_OneScraperAcrossRecreation ==
    \A u \in Users :
       /\ LiveScrapers(u) <= 1
       /\ actor[u] = "aborted" => ~Live(webcom_thread[u])

\* the instance of "a" was created again and started a scraper while the
\* scraper of its stopped predecessor goes on
C32_Reached ==
    /\ "a" \in instances
    /\ actor["a"] = "active"
    /\ orphans["a"] = 1
    /\ Live(webcom_thread["a"])

\* ---------------------------------------------------------------------
\* The Delete request (main.rs 318-329, 345-355)
\* ---------------------------------------------------------------------

\* the row the Delete of u removes and what the handling must leave behind
C33_Step ==
    \A u \in Users :
        /\ Handles(u, {"Delete"}) =>
              /\ userData[u].user_name \notin db'
              /\ userData[u].user_name \in db =>
                    notices'[u] = <<Mail("Manual", FALSE)>>
              /\ ~Live(webcom_thread'[u])
              /\ outbox[u] = <<>> =>
                    /\ outbox'[u] # <<>>
                    /\ outbox'[u][1].kind = "GenResponse"
              /\ actor'[u] # "active"
        /\ actor[u] \in {"exited", "panicked"} =>
              /\ actor'[u] = actor[u]
              /\ ~Live(webcom_thread'[u])
              /\ outbox'[u] = outbox[u] \/ outbox'[u] = <<>>

\* C33: handling Delete deletes the account with the reason Manual, aborts
\* a running scraper and sends a response; from then on the instance
\* launches no scraper and produces no response, whatever reaches its inbox.
C33_DeleteEndsInstance == [][C33_Step]_vars

\* the Delete was handled with the store reachable and a request sent to
\* the instance afterwards waits in its inbox
C33_Reached ==
    /\ actor["a"] = "exited"
    /\ "a" \notin db
    /\ notices["a"] = <<Mail("Manual", FALSE)>>
    /\ inbox["a"] # <<>>

(***************************************************************************)
(* Specification of the scheduler: execution_timer over the instance map   *)
(***************************************************************************)
\* the clock runs from SchedulerStart for SchedulerWindow seconds, in steps
\* of ClockStep seconds
SchedulerStart == Time(23, 58, 1)
SchedulerWindow == 270
ClockStep == 30
SecondsPerDay == 24 * 60 * 60

SecondOfDay(t) == t.hour * 3600 + t.minute * 60 + t.second

\* Time + Duration::seconds(n) wraps at midnight
AddSeconds(t, n) ==
    LET total == (SecondOfDay(t) + n) % SecondsPerDay
    IN  Time(total \div 3600, (total % 3600) \div 60, total % 60)

\* seconds run since SchedulerStart when the clock shows t
Elapsed(t) == (SecondOfDay(t) - SecondOfDay(SchedulerStart) + SecondsPerDay) % SecondsPerDay

\* execution_interval_minutes and execution_minute of the users
SchedulerInterval(u) == IF u = "a" THEN 60 ELSE 120
SchedulerMinute(u) == IF u = "a" THEN 59 ELSE 0

\* sleep_time = 60 - second + 1, counted from the end of a pass at t
WakeTime(t) == AddSeconds(t, 60 - t.second + 1)

\* a mutation of IsDue: the hours alone are compared
IsDueHourOnly(execution, t) == execution.hour = t.hour

\* instance_time_hm == system_time_hm
IsDue(execution, t) == <<execution.hour, execution.minute>> = <<t.hour, t.minute>>

\* UserInstance::new plans the first execution of u at the time t
InitialPlans(u, t) ==
    {CalculateInitialExecutionTime(t, last, SchedulerInterval(u), SchedulerMinute(u), k) :
        last \in {None, Some(30)}, k \in 0..IntervalHours(SchedulerInterval(u))}

\* one pass of the loop of execution_timer, after its sleep and once it
\* holds the write lock of the map: Timer is try_sent to the instances due
\* and their execution time is planned anew
SchedulerPass ==
    /\ ~lastTick.ran \/ Elapsed(sysTime) >= Elapsed(WakeTime(lastTick.at))
    /\ LET due == {u \in instances : IsDue(executionTimeOf[u], sysTime)}
       IN  /\ inbox' = [u \in Users |->
                           IF u \in due /\ actor[u] \notin {"panicked", "aborted"}
                           THEN TrySend(inbox[u], Request("Timer")) ELSE inbox[u]]
           /\ executionTimeOf' =
                 [u \in Users |->
                     IF u \in due
                     THEN CalculateNextExecutionTime(sysTime, SchedulerInterval(u),
                                                     SchedulerMinute(u))
                     ELSE executionTimeOf[u]]
           /\ lastTick' = [ran |-> TRUE, at |-> sysTime, due |-> due,
                           full |-> {u \in due : inbox[u] # <<>>}]
    /\ UNCHANGED <<now, props, db, dbUser, instances, userData, outbox, actor,
                   webcom_thread, threadResult, start_reason, scraperPw, orphans,
                   last_exit_code, trigger, journal, logbook, warning_sent, lastRun,
                   notices, apiWait, apiStatus, apiCall, requests, watchdogVars,
                   timerVars, kumaVars, settingsVars>>

\* time passes; the scheduler sleeps, or waits for the write lock of the
\* map, or has not been scheduled yet
ClockRuns ==
    /\ Elapsed(sysTime) + ClockStep <= SchedulerWindow
    /\ sysTime' = AddSeconds(sysTime, ClockStep)
    /\ UNCHANGED <<now, props, db, dbUser, instances, instanceVars, requests,
                   watchdogVars, plan, kumaVars, settingsVars, schedulerVars>>

\* add_instances creates the instance of u (the watchdog holds the write
\* lock) with the execution time UserInstance::new plans
SchedulerAdd(u) ==
    /\ u \notin instances
    /\ instances' = instances \cup {u}
    /\ \E t \in InitialPlans(u, sysTime) :
          executionTimeOf' = [executionTimeOf EXCEPT ![u] = t]
    /\ UNCHANGED <<now, props, db, dbUser, instanceVars, requests, watchdogVars,
                   timerVars, kumaVars, settingsVars, lastTick>>

InitScheduler ==
    /\ now = 0
    /\ props = Props(1, 1, 1)
    /\ db = {"a", "c"}
    /\ dbUser = [u \in Users |-> UserRow(u, "pw1")]
    /\ instances = {"a"}
    /\ requests = 0
    /\ InitInstanceVars
    /\ InitWatchdogVars
    /\ sysTime = SchedulerStart
    /\ plan = NoPlan
    /\ InitKumaVars
    /\ InitSettingsVars
    /\ lastTick = NoTick
    /\ \E t \in InitialPlans("a", SchedulerStart) :
          executionTimeOf = [u \in Users |-> IF u = "a" THEN t ELSE Time(0, 0, 0)]

NextScheduler ==
    \/ SchedulerPass
    \/ ClockRuns
    \/ SchedulerAdd("c")
    \/ SendStart("a", "Force")
    \/ HandleStart("a")

SpecScheduler == InitScheduler /\ [][NextScheduler]_vars

(***************************************************************************)
(* Claims about the scheduler                                              *)
(***************************************************************************)
\* execution_timer makes a pass
Passes == lastTick' # lastTick

C34_Step ==
    Passes =>
       \A u \in instances :
          IF <<executionTimeOf[u].hour, executionTimeOf[u].minute>>
                = <<sysTime.hour, sysTime.minute>>
          THEN /\ inbox'[u] = (IF inbox[u] = <<>> THEN <<Request("Timer")>> ELSE inbox[u])
               /\ executionTimeOf'[u] =
                     CalculateNextExecutionTime(sysTime, SchedulerInterval(u),
                                                SchedulerMinute(u))
          ELSE /\ inbox'[u] = inbox[u]
               /\ executionTimeOf'[u] = executionTimeOf[u]

\* C34: at each pass of the scheduler exactly the instances whose execution
\* time has the hour and minute of the clock are sent Timer by a try_send
\* and get the execution time of the re-plan, also when their inbox was
\* full and the request was dropped; the inbox and the execution time of
\* every other instance are left as they were.
C34_TickSendsAndReplans == [][C34_Step]_vars

\* a pass found an instance due whose inbox was full while another instance
\* was not due
C34_Reached ==
    /\ lastTick.ran
    /\ lastTick.full # {}
    /\ instances \ lastTick.due # {}

\* the execution time of u was reached at or before the time the clock shows
Overdue(u) == Elapsed(executionTimeOf[u]) <= Elapsed(sysTime)

C35_Step ==
    Passes => \A u \in instances : Overdue(u) => u \in lastTick'.due

\* C35: no planned trigger is lost to a delay of the scheduler: an instance
\* whose execution time went by in a minute in which the scheduler made no
\* pass over it (the pass was late, or the instance was planned for the
\* current minute after the pass) is sent Timer at the next pass.
C35_NoTriggerLost == [][C35_Step]_vars

\* a pass went over an instance whose execution time lies in an earlier
\* minute and sent it nothing
C35_Reached ==
    /\ lastTick.ran
    /\ \E u \in instances :
          /\ Elapsed(executionTimeOf[u]) < Elapsed(lastTick.at)
          /\ u \notin lastTick.due
          /\ inbox[u] = <<>>

(***************************************************************************)
(* The re-plan and the heartbeat interval of the push monitor              *)
(***************************************************************************)
\* the values of expected_execution_time_seconds explored
ExpectedExecutionTimes == {0, 120, 600}

\* create_monitor: the interval of the push monitor, in seconds
HeartbeatInterval(execution_interval, expected_execution_time_seconds) ==
    execution_interval * 60 + expected_execution_time_seconds

\* seconds from a trigger at the time of day `from` to the next time the
\* clock shows the hour and minute of `to`
TriggerGap(from, to) ==
    LET d == (SecondOfDay(to) - SecondOfDay(GetSystemTimeZeroSeconds(from))
                 + SecondsPerDay) % SecondsPerDay
    IN  IF d = 0 THEN SecondsPerDay ELSE d

\* a re-plan made at a trigger that a re-plan had planned itself
ReplanAtPlannedTrigger ==
    /\ plan.kind = "Next"
    /\ plan.interval \in 1..1440
    /\ plan.minute \in 0..59
    /\ plan.at.minute = plan.minute

\* C36: for every interval in 1..1440 the time between two consecutive
\* triggers planned by the re-plan is at most the heartbeat interval of the
\* monitor of the user, interval * 60 + expected_execution_time_seconds.
C36_GapWithinHeartbeat ==
    ReplanAtPlannedTrigger =>
       \A e \in ExpectedExecutionTimes :
          TriggerGap(plan.at, plan.result) <= HeartbeatInterval(plan.interval, e)

\* a re-plan for an interval below one hour
C36_Reached ==
    /\ ReplanAtPlannedTrigger
    /\ plan.interval = 1
    /\ TriggerGap(plan.at, plan.result) = 3600

(***************************************************************************)
(* The order of the steps of a reconcile                                   *)
(***************************************************************************)
\* the watchdog has carried out a full or a single-user reconcile
Reconciles == lastWd'.done /\ lastWd'.kind \in {"Full", "Single"}

C37_Step ==
    Reconciles =>
       LET added == instances' \ instances
           removed == instances \ instances'
       IN  /\ \A c \in lastWd'.calls :
                 /\ c[1] \in {"EnsureMonitor", "EnsureNotification"} =>
                       \E u \in added : c[2] = userData'[u].user_name
                 /\ c[1] \in {"DeleteMonitor", "DeleteNotification"} =>
                       \E u \in removed : c[2] = userData[u].user_name
           /\ (lastWd'.kuma # "connect" /\ ~lastWd'.first_run) =>
                 \A u \in removed :
                    /\ userData[u].user_name \in monitors =>
                          Call("DeleteMonitor", userData[u].user_name) \in lastWd'.calls
                    /\ userData[u].user_name \in notifications =>
                          Call("DeleteNotification", userData[u].user_name) \in lastWd'.calls
           /\ (lastWd'.kuma = "ok" /\ ~lastWd'.first_run /\ added \cup removed # {}) =>
                 \A u \in added :
                    Call("EnsureMonitor", userData'[u].user_name) \in lastWd'.calls

\* C37: in every reconcile, full or single-user, the monitor calls are made
\* between add_instances and stop_instances: the monitor of an added user is
\* ensured only once its instance is in the map, under the name of that
\* instance, and the monitor and notification of a removed user are deleted
\* while its instance is still in the map, before it is aborted and removed.
C37_SyncBetweenAddAndStop == [][C37_Step]_vars

\* a reconcile that added an instance and removed another and made monitor
\* calls for both
C37_Reached ==
    /\ lastWd.done
    /\ lastWd.kind = "Full"
    /\ lastWd.kuma = "ok"
    /\ CallsFor("EnsureMonitor") \cap instances # {}
    /\ CallsFor("DeleteMonitor") \ instances # {}
    /\ CallsFor("DeleteNotification") \ instances # {}


(***************************************************************************)
(* What the refresh of an instance changes                                 *)
(***************************************************************************)
\* the properties stored for u: its custom properties, or the defaults
StoredProperties(u) ==
    IF custom_general_properties[u] # None
    THEN custom_general_properties[u][1] ELSE defaultRow

\* update_individual_user refreshes u, which has a row and an instance
Refreshes(u) == u \in instances \cap db /\ SettingsRefreshUser(u)

C38_Step ==
    \A u \in SettingsUsers :
        Refreshes(u) =>
           /\ EffectiveProperties(u)' = StoredProperties(u)
           /\ \A v \in instances \ {u} :
                 EffectiveProperties(v)' \in {EffectiveProperties(v), StoredProperties(v)}
           /\ <<actor[u], inbox[u], outbox[u], webcom_thread[u], orphans[u],
                last_exit_code[u], executionTimeOf[u]>>'
                 = <<actor[u], inbox[u], outbox[u], webcom_thread[u], orphans[u],
                     last_exit_code[u], executionTimeOf[u]>>

\* C38: the refresh of a user that has a row and an instance replaces the
\* user and properties snapshots of that instance with the stored values and
\* nothing else: the snapshots of the other instances, the worker task, the
\* channels, the scraper in flight, last_exit_code and the execution time
\* stay as they were.
C38_RefreshReplacesSnapshotsOnly == [][C38_Step]_vars

\* u, on the shared default cell next to another instance, was given custom
\* properties and refreshed
C38_Reached ==
    /\ reconciled
    /\ instances = SettingsUsers
    /\ custom_general_properties["a"] # None
    /\ general_settings = [u \in Users |-> "shared"]
    /\ DEFAULT_PROPERTIES = CustomOf("a")
    /\ defaultRow = "D2"


(***************************************************************************)
(* The exit code of a run: the calendar status and the code OK             *)
(***************************************************************************)
\* the runs that can start in this state, as JournalRun starts them
NextRuns(u) ==
    IF journal[u].retry_count < MaxRetryCount
    THEN {WebcomInstance(kind, journal[u], pw, props, logbook[u], env) :
             kind \in {"Timer", "Force"}, pw \in Passwords,
             env \in RunEnvs(props, PassResults, MailFailures)}
    ELSE {}

\* the run res is the one that ends in this step
EndsAs(res) ==
    /\ logbook'["a"] = res.code
    /\ journal'["a"] = res.file
    /\ lastRun'["a"].skipped = res.skipped
    /\ lastRun'["a"].attempted = res.attempted
    /\ lastRun'["a"].update = res.update

C39_Step ==
    \A res \in NextRuns("a") :
        EndsAs(res) => (res.patched <=> logbook["a"] # logbook'["a"])

\* C39: whenever a run ends with an exit code that differs from the exit
\* code of the logbook, on every path, the skipped run and the run that gets
\* no browser included, the status of the calendar is patched before
\* ExecutionFinished is sent; when the codes are equal it is not patched.
C39_StatusPatchedOnChange == [][C39_Step]_vars

\* a run that got no browser has ended with GeckoEngine
C39_Reached ==
    /\ Ran(lastRun["a"])
    /\ props.execution_retry_count > 0
    /\ ~lastRun["a"].skipped
    /\ ~lastRun["a"].attempted
    /\ logbook["a"] = GeckoEngine

\* C40: a run reports OK only if one of its passes succeeded: after a run in
\* which no pass succeeded the logbook does not hold OK.
C40_OkNeedsSuccessfulPass ==
    (Ran(lastRun["a"]) /\ logbook["a"] = OK) => SignInSucceeded(lastRun["a"])

\* a run with execution_retry_count = 0 has ended: no pass was made
C40_Reached ==
    /\ Ran(lastRun["a"])
    /\ props.execution_retry_count = 0
    /\ ~lastRun["a"].skipped
    /\ lastRun["a"].code = OK
    /\ logbook["a"] = OK

====
